---- MODULE Spec2Model ----
(***************************************************************************)
(* A model of the retrieval-augmented question-answering pipeline of the   *)
(* legal-docs-analyzer repository: the embedding model pool and the        *)
(* embedding cache (app/rag/embeddings.py), the Qdrant vector store        *)
(* (app/rag/vector_store.py), answer synthesis (app/rag/qa.py) and the     *)
(* document routes that drive them (app/documents/routes.py), with the     *)
(* chunking functions (app/rag/chunking.py) and the quality assessment     *)
(* (app/rag/evaluation.py) as operators on character sequences and        *)
(* metric records.                                                         *)
(*                                                                         *)
(* Seven specifications share the variables:                               *)
(*   Spec      - the document routes and answer_query;                     *)
(*   LiveSpec  - Spec with weak fairness on the program's own steps;       *)
(*   SpecStore - sequences of calls into the vector store module;          *)
(*   SpecEmbed - sequences of calls into the embeddings module;            *)
(*   SpecConc  - two threads inside get_embedding_model;                   *)
(*   SpecChunk - calls of semantic_chunk_with_overlap and smart_chunking;  *)
(*   SpecEval  - calls of assess_overall_quality.                          *)
(***************************************************************************)
EXTENDS Integers, Sequences, FiniteSets, TLC

VARIABLES
    embedding_model,      \* embeddings.py:28  _embedding_model (None or an instance)
    current_model_name,   \* embeddings.py:29  _current_model_name
    constructed,          \* number of SentenceTransformer(...) constructions per model id
    cache,                \* the files of CACHE_DIR: cache key -> stored embeddings
    ret,                  \* the call that has just returned to its caller: arguments,
                          \* outcome and effects; Idle between calls
    documents,            \* the documents table: id -> row
    nextDocId,            \* next value of the autoincrement primary key
    points,               \* the Qdrant collection's points: point id -> vector and payload
    collection,           \* whether the collection and its document_id index exist
    nextUuid,             \* number of uuid4() values drawn so far
    pending,              \* the call a handler in progress is at: the generation call
                          \* of answer_query, or a step of upload_document
    pc,                   \* per thread: position inside get_embedding_model
    req,                  \* per thread: the model_name argument
    got                   \* per thread: the instance get_embedding_model returned

vars == <<embedding_model, current_model_name, constructed, cache, ret,
          documents, nextDocId, points, collection, nextUuid, pending,
          pc, req, got>>

embedVars == <<embedding_model, current_model_name, constructed, cache>>
storeVars == <<documents, nextDocId, points, collection, nextUuid>>
concVars  == <<pc, req, got>>

(***************************************************************************)
(* Bounds of the model.                                                    *)
(***************************************************************************)
MaxCache == 1          \* most cache files written
MaxLoads == 3          \* most model constructions
MaxDocs == 1           \* most documents uploaded
MaxPoints == 2         \* most uuid4() point ids drawn
MaxTextLen == 6        \* most characters of a text given to the chunker

None == "None"

\* no call is in progress
NoCall == [op |-> "none"]

\* no call has returned a result the caller has yet to take
Idle == [args |-> NoCall, status |-> "idle", value |-> None, effects |-> {}]

\* the value None in a variable that otherwise holds a model instance
NoModel == [name |-> None, serial |-> 0]

(***************************************************************************)
(* Small helpers.                                                          *)
(***************************************************************************)
Min(a, b) == IF a <= b THEN a ELSE b

(***************************************************************************)
(* app/rag/embeddings.py                                                   *)
(***************************************************************************)
EMBEDDING_MODELS ==
    [default      |-> "all-MiniLM-L6-v2",
     multilingual |-> "paraphrase-multilingual-MiniLM-L12-v2",
     legal        |-> "nlpaueb/legal-bert-base-uncased",
     high_quality |-> "all-mpnet-base-v2"]

\* EMBEDDING_MODELS.get(model_name, EMBEDDING_MODELS["default"])
ActualModel(model_name) ==
    IF model_name \in DOMAIN EMBEDDING_MODELS
    THEN EMBEDDING_MODELS[model_name]
    ELSE EMBEDDING_MODELS["default"]

ModelIds == {EMBEDDING_MODELS[k] : k \in DOMAIN EMBEDDING_MODELS}

\* model_name arguments tried: two keys of the table and a name that is not a key
ModelArgs == {"default", "high_quality", "custom"}

\* get_sentence_embedding_dimension(): 384 for the MiniLM models, 768 for the others
Dimension(model_id) ==
    IF model_id \in {"all-MiniLM-L6-v2", "paraphrase-multilingual-MiniLM-L12-v2"}
    THEN 384 ELSE 768

\* The texts embedded: chunk texts "a" and "b", the query "q"; "" and " " are blank.
Texts == {"a", "b"}
QueryTexts == {"q", "", " "}

\* The text lists passed to generate_embeddings
TextLists == {<<>>, <<"a">>, <<"b">>, <<"b", "a">>}

\* text.strip() is empty
IsBlank(text) == text \in {"", " "}

\* The direction of the raw (not normalized) output of model.encode for a text,
\* as a two-component integer vector; the model id turns it.
RawDir(model_id, text) ==
    LET d == CASE text = "a" -> <<1, 0>>
               [] text = "b" -> <<3, 4>>
               [] OTHER      -> <<4, 3>>
    IN  IF Dimension(model_id) = 384 THEN d ELSE <<d[2], d[1]>>

NormSq(dir) == dir[1] * dir[1] + dir[2] * dir[2]

\* np.linalg.norm: the directions used all have a whole-number length
Norm(dir) == CHOOSE n \in 0..(dir[1] + dir[2]) : n * n = NormSq(dir)

Dot(d1, d2) == d1[1] * d2[1] + d1[2] * d2[2]

\* One row of model.encode(..., normalize_embeddings=normalize): the vector has the
\* model's dimension and the raw direction; scaled is TRUE when the vector was divided
\* by its norm.
EncodeOne(inst, text, normalize) ==
    [dim |-> Dimension(inst.name), dir |-> RawDir(inst.name, text), scaled |-> normalize]

\* the [] generate_single_embedding returns for a blank text: a vector of no components
EmptyVector == [dim |-> 0, dir |-> <<0, 0>>, scaled |-> FALSE]

\* Euclidean norm of a vector equals 1
IsUnit(v) == v.scaled \/ NormSq(v.dir) = 1

\* model.encode(texts, ...).tolist(): one vector per text, in order
Encode(inst, texts, normalize) ==
    [i \in 1..Len(texts) |-> EncodeOne(inst, texts[i], normalize)]

\* The part of the program state the functions below read and write, as one record:
\* the two globals of embeddings.py and the construction count, the cache directory,
\* the Qdrant collection and the documents table.
Cur == [emb |-> embedding_model, name |-> current_model_name, cons |-> constructed,
        cache |-> cache, collection |-> collection, points |-> points,
        nextUuid |-> nextUuid, documents |-> documents, nextDocId |-> nextDocId]

\* number of SentenceTransformer(...) constructions so far
TotalConstructed(s) == s.cons["all-MiniLM-L6-v2"] + s.cons["all-mpnet-base-v2"]
                       + s.cons["paraphrase-multilingual-MiniLM-L12-v2"]
                       + s.cons["nlpaueb/legal-bert-base-uncased"]

\* Each function of the program is an operator from the state s it starts in, its
\* arguments and the faults of this call (the steps that raise) to its outcome:
\* status ("ok" or "raised"), the value returned, the steps performed (effects) and
\* the state it leaves (st).

\* get_embedding_model comparing _current_model_name with the model_name argument
\* instead of the looked-up model id
get_embedding_model_alias(s, model_name, faults) ==
    LET actual_model == ActualModel(model_name)
        inst == [name |-> actual_model, serial |-> s.cons[actual_model] + 1]
    IN  IF s.emb # NoModel /\ s.name = model_name
        THEN [status |-> "ok", value |-> s.emb, effects |-> {"model_get"}, st |-> s]
        ELSE IF "model_load" \in faults
        THEN [status |-> "raised", value |-> NoModel, effects |-> {"model_get"}, st |-> s]
        ELSE [status |-> "ok", value |-> inst, effects |-> {"model_get", "model_load"},
              st |-> [s EXCEPT !.emb = inst, !.name = actual_model,
                               !.cons[actual_model] = @ + 1]]

\* get_embedding_model(model_name), run without interruption.  Fault "model_load":
\* the SentenceTransformer constructor raises.
get_embedding_model(s, model_name, faults) ==
    LET actual_model == ActualModel(model_name)
        inst == [name |-> actual_model, serial |-> s.cons[actual_model] + 1]
    IN  IF s.emb # NoModel /\ s.name = actual_model
        THEN [status |-> "ok", value |-> s.emb, effects |-> {"model_get"}, st |-> s]
        ELSE IF "model_load" \in faults
        THEN [status |-> "raised", value |-> NoModel, effects |-> {"model_get"}, st |-> s]
        ELSE [status |-> "ok", value |-> inst, effects |-> {"model_get", "model_load"},
              st |-> [s EXCEPT !.emb = inst, !.name = actual_model,
                               !.cons[actual_model] = @ + 1]]

\* hashlib.md5((json.dumps(texts) + model_name).encode()).hexdigest(): the key of a
\* cache file is decided by the text list and the model_name argument alone
CacheKey(texts, model_name) == <<texts, model_name>>

\* try_load_from_cache(texts, model_name).  Fault "cache_read": open/json.load raises,
\* which the function turns into None.
try_load_from_cache(s, texts, model_name, faults) ==
    IF CacheKey(texts, model_name) \in DOMAIN s.cache /\ "cache_read" \notin faults
    THEN [hit |-> TRUE, embeddings |-> s.cache[CacheKey(texts, model_name)]]
    ELSE [hit |-> FALSE, embeddings |-> <<>>]

\* save_to_cache(texts, model_name, embeddings).  Fault "cache_write": open/json.dump
\* raises, which the function swallows.
save_to_cache(s, texts, model_name, embeddings, faults) ==
    IF "cache_write" \in faults THEN s
    ELSE [s EXCEPT !.cache =
            [k \in DOMAIN s.cache \cup {CacheKey(texts, model_name)} |->
                IF k = CacheKey(texts, model_name) THEN embeddings ELSE s.cache[k]]]

Faults == {"cache_read", "model_load", "encode", "cache_write"}

\* The fault sets tried per call: no fault, one fault, or an unreadable cache file
\* together with one later fault (a later fault is never reached past an earlier
\* raising one, so the other combinations repeat these).
FaultSets == {{}} \cup {{f} : f \in Faults}
             \cup {{"cache_read", f} : f \in Faults \ {"cache_read"}}

\* generate_embeddings past its empty-input test (embeddings.py lines 81-111)
generate_embeddings_body(s, texts, model_name, normalize, use_cache, faults) ==
    LET cached == try_load_from_cache(s, texts, model_name, faults)
        gm == get_embedding_model(s, model_name, faults)
        embeddings_list == Encode(gm.value, texts, normalize)
        readFx == IF use_cache THEN {"cache_read"} ELSE {}
    IN  IF use_cache /\ cached.hit
        THEN [status |-> "ok", value |-> cached.embeddings, effects |-> {"cache_read"},
              st |-> s]
        ELSE IF gm.status = "raised"
        THEN [status |-> "raised", value |-> <<>>, effects |-> readFx \cup gm.effects,
              st |-> gm.st]
        ELSE IF "encode" \in faults
        THEN [status |-> "raised", value |-> <<>>,
              effects |-> readFx \cup gm.effects \cup {"encode"}, st |-> gm.st]
        ELSE [status |-> "ok", value |-> embeddings_list,
              effects |-> readFx \cup gm.effects \cup {"encode"}
                          \cup (IF use_cache THEN {"cache_write"} ELSE {}),
              st |-> IF use_cache
                     THEN save_to_cache(gm.st, texts, model_name, embeddings_list, faults)
                     ELSE gm.st]

\* generate_embeddings without its empty-input test
generate_embeddings_unguarded(s, texts, model_name, normalize, use_cache, faults) ==
    generate_embeddings_body(s, texts, model_name, normalize, use_cache, faults)

\* generate_embeddings(texts, model_name, batch_size, show_progress, normalize,
\* use_cache): "if not texts: return []", then the body.
generate_embeddings(s, texts, model_name, normalize, use_cache, faults) ==
    IF texts = <<>>
    THEN [status |-> "ok", value |-> <<>>, effects |-> {}, st |-> s]
    ELSE generate_embeddings_body(s, texts, model_name, normalize, use_cache, faults)

\* generate_single_embedding(text, model_name, normalize); blank is TRUE when the
\* function returned [] for a blank text
generate_single_embedding(s, text, model_name, normalize, faults) ==
    LET gm == get_embedding_model(s, model_name, faults)
        none == EmptyVector
    IN  IF IsBlank(text)
        THEN [status |-> "ok", blank |-> TRUE, value |-> none, effects |-> {}, st |-> s]
        ELSE IF gm.status = "raised"
        THEN [status |-> "raised", blank |-> FALSE, value |-> none,
              effects |-> gm.effects, st |-> gm.st]
        ELSE IF "encode" \in faults
        THEN [status |-> "raised", blank |-> FALSE, value |-> none,
              effects |-> gm.effects \cup {"encode"}, st |-> gm.st]
        ELSE [status |-> "ok", blank |-> FALSE,
              value |-> Encode(gm.value, <<text>>, normalize)[1],
              effects |-> gm.effects \cup {"encode"}, st |-> gm.st]

\* generate_embedding(text): the deprecated wrapper
generate_embedding(s, text, faults) ==
    generate_single_embedding(s, text, "default", TRUE, faults)

\* get_embedding_dimension(model_name)
get_embedding_dimension(s, model_name, faults) ==
    LET gm == get_embedding_model(s, model_name, faults)
    IN  IF gm.status = "raised"
        THEN [status |-> "raised", value |-> 0, effects |-> gm.effects, st |-> gm.st]
        ELSE [status |-> "ok", value |-> Dimension(gm.value.name), effects |-> gm.effects,
              st |-> gm.st]

(***************************************************************************)
(* Initial state: a fresh process, an empty cache directory, an empty      *)
(* documents table and no Qdrant collection.                               *)
(***************************************************************************)
Threads == {"upload", "query"}

Init ==
    /\ embedding_model = NoModel
    /\ current_model_name = None
    /\ constructed = [m \in ModelIds |-> 0]
    /\ cache = <<>>
    /\ ret = Idle
    /\ documents = <<>>
    /\ nextDocId = 1
    /\ points = <<>>
    /\ collection = [exists |-> FALSE, indexed |-> FALSE, size |-> 0]
    /\ nextUuid = 0
    /\ pending = NoCall
    /\ pc = [t \in Threads |-> "idle"]
    /\ req = [t \in Threads |-> "default"]
    /\ got = [t \in Threads |-> NoModel]

(***************************************************************************)
(* SpecEmbed: any sequence of calls of the public functions of             *)
(* embeddings.py, one call at a time.                                      *)
(***************************************************************************)
\* what the caller sees of a call r made with arguments args
Outcome(args, r) ==
    [f \in (DOMAIN r \ {"st"}) \cup {"args"} |-> IF f = "args" THEN args ELSE r[f]]

\* The state a call leaves becomes the current state, and its outcome is handed to the
\* caller.  The bounds of the model cap the counters that otherwise grow for ever.
Update(st) ==
    /\ TotalConstructed(st) <= MaxLoads
    /\ Cardinality(DOMAIN st.cache) <= MaxCache
    /\ st.nextUuid <= MaxPoints
    /\ st.nextDocId <= MaxDocs + 1
    /\ embedding_model' = st.emb
    /\ current_model_name' = st.name
    /\ constructed' = st.cons
    /\ cache' = st.cache
    /\ collection' = st.collection
    /\ points' = st.points
    /\ nextUuid' = st.nextUuid
    /\ documents' = st.documents
    /\ nextDocId' = st.nextDocId

\* a call starts when no call is in progress, and leaves the state st
Apply(st) ==
    /\ ret = Idle
    /\ pending = NoCall
    /\ Update(st)

\* a call r made with arguments args returns to its caller
Return(args, r) ==
    /\ Apply(r.st)
    /\ ret' = Outcome(args, r)

\* a handler that was at one of its calls leaves the state r.st and returns r
Finish(args, r) ==
    /\ Update(r.st)
    /\ ret' = Outcome(args, r)

GenerateEmbeddings ==
    \E texts \in TextLists, model_name \in ModelArgs,
       normalize \in BOOLEAN, use_cache \in BOOLEAN, faults \in FaultSets :
        /\ Return([op |-> "generate_embeddings", texts |-> texts, model_name |-> model_name,
                   normalize |-> normalize, use_cache |-> use_cache],
                  generate_embeddings(Cur, texts, model_name, normalize, use_cache, faults))
        /\ UNCHANGED <<pending, concVars>>

GenerateSingleEmbedding ==
    \E text \in Texts \cup QueryTexts, model_name \in ModelArgs, normalize \in BOOLEAN,
       faults \in {{}, {"model_load"}, {"encode"}} :
        /\ Return([op |-> "generate_single_embedding", text |-> text,
                   model_name |-> model_name, normalize |-> normalize],
                  generate_single_embedding(Cur, text, model_name, normalize, faults))
        /\ UNCHANGED <<pending, concVars>>

GetEmbeddingDimension ==
    \E model_name \in ModelArgs, faults \in SUBSET {"model_load"} :
        /\ Return([op |-> "get_embedding_dimension", model_name |-> model_name],
                  get_embedding_dimension(Cur, model_name, faults))
        /\ UNCHANGED <<pending, concVars>>

\* The caller takes the returned value (or the exception); the next call can start.
Proceed ==
    /\ ret # Idle
    /\ ret' = Idle
    /\ UNCHANGED <<embedVars, storeVars, pending, concVars>>

NextEmbed ==
    \/ GenerateEmbeddings
    \/ GenerateSingleEmbedding
    \/ GetEmbeddingDimension
    \/ Proceed

SpecEmbed == Init /\ [][NextEmbed]_vars

(***************************************************************************)
(* app/rag/vector_store.py: the Qdrant collection and the functions that   *)
(* write and read it.                                                      *)
(***************************************************************************)
\* len(text) of the chunk texts, in characters
TextLen(text) == CASE text = "a" -> 120
                   [] text = "b" -> 260
                   [] OTHER      -> 0

\* create_collection_if_not_exists without the test of lines 41-43
create_collection_always(s, faults) ==
    LET dim == get_embedding_dimension(s, "default", faults)
        created == [dim.st EXCEPT
                      !.collection = [exists |-> TRUE, indexed |-> FALSE, size |-> dim.value]]
        indexed == [created EXCEPT !.collection.indexed = TRUE]
    IN  IF "get_collections" \in faults
        THEN [status |-> "raised", effects |-> {"get_collections"}, st |-> s]
        ELSE IF dim.status = "raised"
        THEN [status |-> "raised", effects |-> {"get_collections"} \cup dim.effects,
              st |-> dim.st]
        ELSE IF "create_collection" \in faults
        THEN [status |-> "raised",
              effects |-> {"get_collections", "create_collection"} \cup dim.effects,
              st |-> dim.st]
        ELSE IF "create_index" \in faults
        THEN [status |-> "raised",
              effects |-> {"get_collections", "create_collection", "create_index"}
                          \cup dim.effects,
              st |-> created]
        ELSE [status |-> "ok",
              effects |-> {"get_collections", "create_collection", "create_index"}
                          \cup dim.effects,
              st |-> indexed]

\* create_collection_if_not_exists(collection_name).  Faults: the client calls
\* get_collections, create_collection and create_payload_index raise.
create_collection_if_not_exists(s, faults) ==
    LET dim == get_embedding_dimension(s, "default", faults)
        created == [dim.st EXCEPT
                      !.collection = [exists |-> TRUE, indexed |-> FALSE, size |-> dim.value]]
        indexed == [created EXCEPT !.collection.indexed = TRUE]
    IN  IF "get_collections" \in faults
        THEN [status |-> "raised", effects |-> {"get_collections"}, st |-> s]
        ELSE IF s.collection.exists
        THEN [status |-> "ok", effects |-> {"get_collections"}, st |-> s]
        ELSE IF dim.status = "raised"
        THEN [status |-> "raised", effects |-> {"get_collections"} \cup dim.effects,
              st |-> dim.st]
        ELSE IF "create_collection" \in faults
        THEN [status |-> "raised",
              effects |-> {"get_collections", "create_collection"} \cup dim.effects,
              st |-> dim.st]
        ELSE IF "create_index" \in faults
        THEN [status |-> "raised",
              effects |-> {"get_collections", "create_collection", "create_index"}
                          \cup dim.effects,
              st |-> created]
        ELSE [status |-> "ok",
              effects |-> {"get_collections", "create_collection", "create_index"}
                          \cup dim.effects,
              st |-> indexed]

\* an id computed from the document and the position instead of drawn by uuid4()
PointId_by_position(s, document_id, i) == 10 * document_id + i

\* id=str(uuid4()) for the i-th point (i from 0) of an upsert: a value never drawn before
PointId(s, document_id, i) == s.nextUuid + i + 1

\* the PointStruct built at lines 109-118 for position i (from 0)
PointStruct(document_id, i, chunk, embedding) ==
    [vector |-> embedding,
     payload |-> [document_id |-> document_id, chunk_index |-> i, text |-> chunk,
                  chunk_length |-> TextLen(chunk)]]

\* client.upsert(points): a point whose id is in the collection is replaced, any
\* other is added
Upsert(old, ids, new) ==
    [id \in DOMAIN old \cup {ids[k] : k \in DOMAIN ids} |->
        IF \E k \in DOMAIN ids : ids[k] = id
        THEN new[CHOOSE k \in DOMAIN ids : ids[k] = id /\ \A j \in DOMAIN ids :
                                                (ids[j] = id => j <= k)]
        ELSE old[id]]

\* store_document_chunks(document_id, chunks, embeddings, collection_name).  Fault
\* "upsert": client.upsert raises; the server also rejects a vector whose size is not
\* the collection's.  ids are the point ids of the PointStructs built.
store_document_chunks(s, document_id, chunks, embeddings, faults) ==
    LET cc == create_collection_if_not_exists(s, faults)
        \* zip(chunks, embeddings) stops at the shorter of the two
        n == Min(Len(chunks), Len(embeddings))
        ids == [k \in 1..n |-> PointId(cc.st, document_id, k - 1)]
        new == [k \in 1..n |-> PointStruct(document_id, k - 1, chunks[k], embeddings[k])]
        drawn == [cc.st EXCEPT !.nextUuid = @ + n]
        rejected == \E k \in 1..n : embeddings[k].dim # cc.st.collection.size
    IN  IF cc.status = "raised"
        THEN [status |-> "raised", value |-> 0, ids |-> <<>>,
              effects |-> cc.effects, st |-> cc.st]
        ELSE IF "upsert" \in faults \/ rejected
        THEN [status |-> "raised", value |-> 0, ids |-> ids,
              effects |-> cc.effects \cup {"upsert"}, st |-> drawn]
        ELSE [status |-> "ok", value |-> n, ids |-> ids,
              effects |-> cc.effects \cup {"upsert"},
              st |-> [drawn EXCEPT !.points = Upsert(cc.st.points, ids, new)]]

\* the Filter(must=[FieldCondition(key="document_id", match=MatchValue(value=...))])
Matching(pts, document_id) ==
    {id \in DOMAIN pts : pts[id].payload.document_id = document_id}

\* A filtered request on a collection whose payload index is missing is served by a
\* full scan or refused, as the server is configured ("unindexed" in faults: refused).
FilterRefused(s, faults) == ~s.collection.indexed /\ "unindexed" \in faults

\* delete_document_chunks(document_id, collection_name).  client.delete raises when
\* the request fails (fault "delete"), when the collection does not exist, and when
\* the server refuses the unindexed filter; error names the exception.
delete_document_chunks(s, document_id, faults) ==
    LET keep == DOMAIN s.points \ Matching(s.points, document_id)
        raised(e) == [status |-> "raised", value |-> None, effects |-> {"delete"},
                      error |-> e, st |-> s]
    IN  IF "delete" \in faults THEN raised("request failed")
        ELSE IF ~s.collection.exists THEN raised("collection not found")
        ELSE IF FilterRefused(s, faults) THEN raised("index required")
        ELSE [status |-> "ok", value |-> None, effects |-> {"delete"}, error |-> None,
              st |-> [s EXCEPT !.points = [id \in keep |-> s.points[id]]]]

\* hit.score under Distance.COSINE, in units of 0.00001
Score(q, v) == (100000 * Dot(q.dir, v.dir)) \div (Norm(q.dir) * Norm(v.dir))

\* The replies client.search can give for candidates cands and limit=top_k: the top_k
\* best-scoring candidates, best first; points of equal score come in either order.
Rankings(s, q, cands, top_k) ==
    LET n == Min(top_k, Cardinality(cands))
        sc(id) == Score(q, s.points[id].vector)
    IN  {r \in [1..n -> cands] :
            /\ \A i, j \in 1..n : i < j => (r[i] # r[j] /\ sc(r[i]) >= sc(r[j]))
            /\ \A id \in cands : (\A i \in 1..n : r[i] # id) =>
                                   \A i \in 1..n : sc(r[i]) >= sc(id)}

\* the dictionary search_similar_chunks builds from a hit (lines 200-205)
Hit(s, q, id) ==
    [text |-> s.points[id].payload.text, score |-> Score(q, s.points[id].vector),
     document_id |-> s.points[id].payload.document_id,
     chunk_index |-> s.points[id].payload.chunk_index]

\* search_similar_chunks passing no query_filter to client.search
search_similar_chunks_unfiltered(s, query, document_id, top_k, faults) ==
    LET qe == generate_embedding(s, query, faults)
        cands == DOMAIN qe.st.points
    IN  IF qe.status = "raised"
        THEN {[status |-> "raised", value |-> <<>>, effects |-> qe.effects, st |-> qe.st]}
        ELSE IF \/ ~qe.st.collection.exists
                \/ "search" \in faults
                \/ FilterRefused(qe.st, faults)
                \/ qe.value.dim # qe.st.collection.size
        THEN {[status |-> "raised", value |-> <<>>, effects |-> qe.effects \cup {"search"},
               st |-> qe.st]}
        ELSE {[status |-> "ok",
               value |-> [i \in 1..Len(r) |-> Hit(qe.st, qe.value, r[i])],
               effects |-> qe.effects \cup {"search"}, st |-> qe.st] :
                  r \in Rankings(qe.st, qe.value, cands, top_k)}

\* search_similar_chunks(query, document_id, top_k, collection_name) with a
\* document_id: the set of outcomes the call can have.  Fault "search": client.search
\* raises; it also raises when the collection does not exist or the query vector has
\* not the collection's size (the [] of a blank query).
search_similar_chunks(s, query, document_id, top_k, faults) ==
    LET qe == generate_embedding(s, query, faults)
        cands == Matching(qe.st.points, document_id)
    IN  IF qe.status = "raised"
        THEN {[status |-> "raised", value |-> <<>>, effects |-> qe.effects, st |-> qe.st]}
        ELSE IF \/ ~qe.st.collection.exists
                \/ "search" \in faults
                \/ FilterRefused(qe.st, faults)
                \/ qe.value.dim # qe.st.collection.size
        THEN {[status |-> "raised", value |-> <<>>, effects |-> qe.effects \cup {"search"},
               st |-> qe.st]}
        ELSE {[status |-> "ok",
               value |-> [i \in 1..Len(r) |-> Hit(qe.st, qe.value, r[i])],
               effects |-> qe.effects \cup {"search"}, st |-> qe.st] :
                  r \in Rankings(qe.st, qe.value, cands, top_k)}

(***************************************************************************)
(* app/rag/qa.py: answer_query.  The function blocks in                    *)
(* gemini_model.generate_content; it is modelled in two parts, up to the   *)
(* generation call and from the reply (or exception) of that call on.      *)
(***************************************************************************)
\* An answer text is held as the set of the phrases it contains.
\* the answer of the empty-retrieval path (line 46)
NoInformationAnswer == {"I couldn't find any relevant information"}

\* context_parts: "[Excerpt i]:\n{text}\n" per result, in order
ContextParts(search_results) ==
    [i \in 1..Len(search_results) |-> <<"Excerpt", i, search_results[i].text>>]

\* round(score, 4) of a score held in units of 0.00001
Round4(x) == ((x + 5) \div 10) * 10

\* the trimmed source of lines 164-168: the preview is the text, cut when it is longer
\* than 200 characters
TrimSource(src) ==
    [chunk_index |-> src.chunk_index,
     text_preview |-> [text |-> src.text, cut |-> TextLen(src.text) > 200],
     relevance_score |-> Round4(src.score)]

\* answer_query from the return of search_similar_chunks without the test of line 44
answer_query_retrieved_unguarded(sr, detail_level) ==
    IF sr.status = "raised"
    THEN [phase |-> "raised", status |-> "raised", value |-> None,
          effects |-> sr.effects, st |-> sr.st]
    ELSE [phase |-> "generating", status |-> "ok", value |-> None,
          search_results |-> sr.value, context_parts |-> ContextParts(sr.value),
          detail_level |-> detail_level,
          effects |-> sr.effects \cup {"generation"}, st |-> sr.st]

\* answer_query from the return sr of search_similar_chunks (line 42) up to the call
\* of generate_content (line 126): an exception of the search leaves the function,
\* an empty result returns the "none" answer, anything else goes on to the generation.
answer_query_retrieved(sr, detail_level) ==
    IF sr.status = "raised"
    THEN [phase |-> "raised", status |-> "raised", value |-> None,
          effects |-> sr.effects, st |-> sr.st]
    ELSE IF sr.value = <<>>
    THEN [phase |-> "returned", status |-> "ok", search_results |-> sr.value,
          value |-> [answer |-> NoInformationAnswer, context |-> <<>>, sources |-> <<>>,
                     confidence |-> "none", detail_level |-> detail_level],
          effects |-> sr.effects, st |-> sr.st]
    ELSE [phase |-> "generating", status |-> "ok", value |-> None,
          search_results |-> sr.value, context_parts |-> ContextParts(sr.value),
          detail_level |-> detail_level,
          effects |-> sr.effects \cup {"generation"}, st |-> sr.st]

\* answer_query asking for a single result when detail_level is "brief"
answer_query_brief_top1(s, query, document_id, top_k, detail_level, faults) ==
    {answer_query_retrieved(sr, detail_level) :
        sr \in search_similar_chunks(s, query, document_id,
                                     IF detail_level = "brief" THEN 1 ELSE top_k, faults)}

\* answer_query(query, document_id, top_k, detail_level) up to the generation call:
\* the set of outcomes
answer_query(s, query, document_id, top_k, detail_level, faults) ==
    {answer_query_retrieved(sr, detail_level) :
        sr \in search_similar_chunks(s, query, document_id, top_k, faults)}

\* The phrase lists of the three confidence tests (lines 134-144)
HighPhrases == {"explicitly states", "clearly indicates", "according to",
                "directly mentions"}
MediumPhrases == {"infer", "suggest", "might be", "could be", "possibly", "likely",
                  "reasonably conclude"}
LowPhrases == {"cannot determine", "unclear", "insufficient information"}

\* What response.text can hold: any of three phrases, one of each list, the first
\* written with a capital.  A text is the set of the phrases it holds.
Phrases == {"According to", "likely", "unclear"}

\* str.lower() of a phrase
Lower(phrase) == IF phrase = "According to" THEN "according to" ELSE phrase

\* the confidence grading testing the answer as it is written, without lower()
Confidence_case_sensitive(text) ==
    IF text \cap HighPhrases # {} THEN "high"
    ELSE IF text \cap MediumPhrases # {} THEN "medium"
    ELSE IF text \cap LowPhrases # {} THEN "low"
    ELSE "medium"

\* the confidence grading of lines 132-147 for an answer holding the phrases in text
Confidence(text) ==
    LET answer_lower == {Lower(phrase) : phrase \in text}
    IN  IF answer_lower \cap HighPhrases # {} THEN "high"
        ELSE IF answer_lower \cap MediumPhrases # {} THEN "medium"
        ELSE IF answer_lower \cap LowPhrases # {} THEN "low"
        ELSE "medium"

\* What the generation call can do once it ends: return a text, or raise.
GenerationOutcomes ==
    {[kind |-> "text", text |-> t] : t \in SUBSET Phrases}
    \cup {[kind |-> "raise", e |-> e] : e \in {"503 unavailable", "response blocked"}}

\* the except branch returning the trimmed sources of the success path
answer_query_generated_trimmed(p, outcome) ==
    IF outcome.kind = "raise"
    THEN [status |-> "ok", search_results |-> p.search_results, generation |-> outcome,
          value |-> [answer |-> {"Error generating answer: ", outcome.e},
                     context |-> p.context_parts,
                     sources |-> [i \in 1..Len(p.search_results) |->
                                     TrimSource(p.search_results[i])],
                     confidence |-> "error", detail_level |-> p.detail_level],
          effects |-> p.effects]
    ELSE [status |-> "ok", search_results |-> p.search_results, generation |-> outcome,
          value |-> [answer |-> outcome.text, context |-> p.context_parts,
                     sources |-> [i \in 1..Len(p.search_results) |->
                                     TrimSource(p.search_results[i])],
                     confidence |-> Confidence(outcome.text),
                     detail_level |-> p.detail_level],
          effects |-> p.effects]

\* answer_query from the end of the generation call (lines 126-192) for the call p
\* waiting on it: the except branch of lines 149-157, or the result of lines 160-173.
answer_query_generated(p, outcome) ==
    IF outcome.kind = "raise"
    THEN [status |-> "ok", search_results |-> p.search_results, generation |-> outcome,
          value |-> [answer |-> {"Error generating answer: ", outcome.e},
                     context |-> p.context_parts, sources |-> p.search_results,
                     confidence |-> "error", detail_level |-> p.detail_level],
          effects |-> p.effects]
    ELSE [status |-> "ok", search_results |-> p.search_results, generation |-> outcome,
          value |-> [answer |-> outcome.text, context |-> p.context_parts,
                     sources |-> [i \in 1..Len(p.search_results) |->
                                     TrimSource(p.search_results[i])],
                     confidence |-> Confidence(outcome.text),
                     detail_level |-> p.detail_level],
          effects |-> p.effects]

(***************************************************************************)
(* app/documents/routes.py: the handlers upload_document, delete_document  *)
(* and ask_question.  Their status is "ok" or the HTTP error they raise.   *)
(***************************************************************************)
Users == {"u1", "u2"}

\* ids a request can name: the ids given to uploads and one never given
DocIds == 1..(MaxDocs + 1)

\* file names of an upload: none, a PDF, an unsupported type
Filenames == {"", "contract.pdf", "notes.txt"}

\* processing.validate_file_type(filename): <<is_valid, file_type>>
validate_file_type(filename) ==
    CASE filename = "contract.pdf" -> <<TRUE, "pdf">>
      [] filename = "notes.txt"    -> <<FALSE, "txt">>
      [] OTHER                     -> <<FALSE, "">>

\* What processing.process_document returns for the uploaded file: an error, or the
\* extracted text.  The texts: an empty one, a blank one, and texts of one and of two
\* chunks.
Extractions ==
    {[error |-> TRUE, text |-> ""]}
    \cup {[error |-> FALSE, text |-> t] : t \in {"", " ", "A", "B A"}}

\* smart_chunking(text, doc_type, chunk_size=500, overlap_size=100) for the texts
\* above: [] for an empty or blank text, else the chunks of the text
DocumentChunks(text) ==
    CASE text = "A"   -> <<"a">>
      [] text = "B A" -> <<"b", "a">>
      [] OTHER        -> <<>>

\* the document query without the filter on user_id
FindDocument_any_user(s, document_id, user) ==
    IF document_id \in DOMAIN s.documents
    THEN {s.documents[document_id]}
    ELSE {}

\* db.query(Document).filter(id == document_id, user_id == current_user.id).first()
FindDocument(s, document_id, user) ==
    IF document_id \in DOMAIN s.documents /\ s.documents[document_id].user_id = user
    THEN {s.documents[document_id]}
    ELSE {}

\* the RAG step of upload_document letting its exception leave the handler
upload_rag_reraise(document, effects, st) ==
    [status |-> "http_500", value |-> None, effects |-> effects, absorbed |-> FALSE,
     st |-> st]

\* the except branch of the RAG step marking the document as failed
upload_rag_except_marks_error(document, effects, st) ==
    [status |-> "ok", value |-> [document EXCEPT !.status = "error"],
     effects |-> effects, absorbed |-> TRUE,
     st |-> [st EXCEPT !.documents[document.id].status = "error"]]

\* upload_document from an exception of its RAG step (lines 227-232): the exception is
\* logged, and the handler returns the document
upload_rag_except(document, effects, st) ==
    [status |-> "ok", value |-> document, effects |-> effects, absorbed |-> TRUE,
     st |-> st]

\* the table with the row put in place of the row of its id, or added
PutDocument(s, row) ==
    [s EXCEPT !.documents = [id \in DOMAIN s.documents \cup {row.id} |->
                               IF id = row.id THEN row ELSE s.documents[id]]]

\* upload_document(file, current_user) up to the extraction of the text (lines
\* 76-147): the file is validated and written, and the record is created with status
\* 'processing' and committed.  The HTTP error raised, or the document created.
upload_document_begin(s, user, filename) ==
    LET document == [id |-> s.nextDocId, user_id |-> user,
                     original_filename |-> filename,
                     file_type |-> validate_file_type(filename)[2],
                     status |-> "processing", extracted_text |-> ""]
    IN  IF filename = "" \/ ~validate_file_type(filename)[1]
        THEN [phase |-> "returned", status |-> "http_400", value |-> None,
              effects |-> {}, absorbed |-> FALSE, st |-> s]
        ELSE [phase |-> "extracting", status |-> "ok", value |-> document,
              effects |-> {"file_write", "db_insert"}, absorbed |-> FALSE,
              st |-> PutDocument([s EXCEPT !.nextDocId = @ + 1], document)]

\* upload_document from the return of processing.process_document to the commit of
\* its result (lines 150-178).  Fault "commit": the db.commit() calls that follow the
\* extraction (lines 169 and 176) raise, which ends the handler with an error and
\* leaves the row as line 147 committed it.
upload_document_extract(s, document, extraction, effects, faults) ==
    LET extracted == IF extraction.error
                     THEN [document EXCEPT !.status = "error"]
                     ELSE [document EXCEPT !.status = "ready",
                                           !.extracted_text = extraction.text]
    IN  IF "commit" \in faults
        THEN [phase |-> "returned", status |-> "http_500", value |-> None,
              effects |-> effects, absorbed |-> FALSE, st |-> s]
        ELSE [phase |-> "rag", status |-> "ok", value |-> extracted,
              effects |-> effects, absorbed |-> FALSE, st |-> PutDocument(s, extracted)]

\* upload_document from the RAG step to its return (lines 180-234), for the document
\* as the extraction left it.  Fault "chunking": smart_chunking raises.
upload_document_rag(s, document, effects, faults) ==
    LET chunks == DocumentChunks(document.extracted_text)
        ge == generate_embeddings(s, chunks, "default", TRUE, TRUE, faults)
        sc == store_document_chunks(ge.st, document.id, chunks, ge.value, faults)
    IN  IF ~(document.status = "ready" /\ document.extracted_text # "")
        THEN [status |-> "ok", value |-> document, effects |-> effects,
              absorbed |-> FALSE, st |-> s]
        ELSE IF "chunking" \in faults
        THEN upload_rag_except(document, effects \cup {"chunking"}, s)
        ELSE IF chunks = <<>>
        THEN [status |-> "ok", value |-> document, effects |-> effects \cup {"chunking"},
              absorbed |-> FALSE, st |-> s]
        ELSE IF ge.status = "raised"
        THEN upload_rag_except(document, effects \cup {"chunking"} \cup ge.effects,
                               ge.st)
        ELSE IF sc.status = "raised"
        THEN upload_rag_except(document,
                               effects \cup {"chunking"} \cup ge.effects \cup sc.effects,
                               sc.st)
        ELSE [status |-> "ok", value |-> document,
              effects |-> effects \cup {"chunking"} \cup ge.effects \cup sc.effects,
              absorbed |-> FALSE, st |-> sc.st]

\* delete_document(document_id, current_user): the row is deleted; the deletion of the
\* vectors (lines 330-332) is commented out
delete_document(s, user, document_id) ==
    LET found == FindDocument(s, document_id, user)
        keep == DOMAIN s.documents \ {document_id}
    IN  IF found = {}
        THEN [status |-> "http_404", value |-> None, effects |-> {}, st |-> s]
        ELSE [status |-> "ok", value |-> None, effects |-> {"db_delete"},
              st |-> [s EXCEPT !.documents = [id \in keep |-> s.documents[id]]]]

\* ask_question_validate looking the document up before it tests top_k and detail_level
ask_question_validate_lookup_first(s, user, document_id, top_k, detail_level) ==
    LET found == FindDocument(s, document_id, user)
    IN  IF found = {} THEN "http_404"
        ELSE IF ~(1 <= top_k /\ top_k <= 10) THEN "http_400"
        ELSE IF detail_level \notin {"brief", "detailed", "comprehensive"} THEN "http_400"
        ELSE IF (CHOOSE doc \in found : TRUE).status # "ready" THEN "http_400"
        ELSE "ok"

\* ask_question_validate without the status test of lines 409-413
ask_question_validate_any_status(s, user, document_id, top_k, detail_level) ==
    LET found == FindDocument(s, document_id, user)
    IN  IF ~(1 <= top_k /\ top_k <= 10) THEN "http_400"
        ELSE IF detail_level \notin {"brief", "detailed", "comprehensive"} THEN "http_400"
        ELSE IF found = {} THEN "http_404"
        ELSE "ok"

\* ask_question up to the call of answer_query: the HTTP error raised, or "ok"
ask_question_validate(s, user, document_id, top_k, detail_level) ==
    LET found == FindDocument(s, document_id, user)
    IN  IF ~(1 <= top_k /\ top_k <= 10) THEN "http_400"
        ELSE IF detail_level \notin {"brief", "detailed", "comprehensive"} THEN "http_400"
        ELSE IF found = {} THEN "http_404"
        ELSE IF (CHOOSE doc \in found : TRUE).status # "ready" THEN "http_400"
        ELSE "ok"

\* ask_question(question, document_id, top_k, detail_level, current_user) up to the
\* generation call of answer_query: the set of outcomes.  An exception of
\* answer_query becomes HTTP 500.
ask_question(s, user, question, document_id, top_k, detail_level, faults) ==
    LET v == ask_question_validate(s, user, document_id, top_k, detail_level)
    IN  IF v # "ok"
        THEN {[phase |-> "returned", status |-> v, value |-> None, effects |-> {},
               st |-> s]}
        ELSE {IF a.phase = "raised" THEN [a EXCEPT !.status = "http_500"] ELSE a :
                 a \in answer_query(s, question, document_id, top_k, detail_level, faults)}

\* get_document_stats(document_id, current_user): the import of line 466 names a
\* function vector_store.py does not define, so it raises ImportError on every call
\* and the except branch of lines 481-487 builds the reply
get_document_stats(s, user, document_id) ==
    LET found == FindDocument(s, document_id, user)
        document == CHOOSE doc \in found : TRUE
    IN  IF found = {}
        THEN [status |-> "http_404", value |-> None, effects |-> {}, st |-> s]
        ELSE [status |-> "ok",
              value |-> [document_id |-> document_id,
                         error |-> "Unable to retrieve stats",
                         status |-> document.status],
              effects |-> {}, st |-> s]

(***************************************************************************)
(* Spec: requests to the four routes, one handler at a time (the handlers  *)
(* are coroutines that never await between their blocking calls).          *)
(***************************************************************************)
\* a request to upload_document: refused, or run up to the text extraction
UploadDocument ==
    \E user \in Users, filename \in Filenames :
        LET args == [op |-> "upload_document", user |-> user, filename |-> filename]
            b == upload_document_begin(Cur, user, filename)
        IN  /\ UNCHANGED concVars
            /\ IF b.phase = "returned"
               THEN /\ Return(args, b)
                    /\ UNCHANGED pending
               ELSE /\ Apply(b.st)
                    /\ pending' = [op |-> "process_document", args |-> args,
                                   document |-> b.value, effects |-> b.effects]
                    /\ UNCHANGED ret

ExtractFaults == {{}, {"commit"}}

\* process_document returns, and the handler commits what it extracted
ProcessDocumentReturns ==
    /\ pending.op = "process_document"
    /\ \E extraction \in Extractions, faults \in ExtractFaults :
           LET args == [op |-> "upload_document", user |-> pending.args.user,
                        filename |-> pending.args.filename, extraction |-> extraction]
               e == upload_document_extract(Cur, pending.document, extraction,
                                            pending.effects, faults)
           IN  /\ Update(e.st)
               /\ IF e.phase = "returned"
                  THEN /\ ret' = Outcome(args, e)
                       /\ pending' = NoCall
                  ELSE /\ pending' = [op |-> "rag", args |-> args,
                                      document |-> e.value, effects |-> e.effects]
                       /\ UNCHANGED ret
    /\ UNCHANGED concVars

RagFaults == {{}, {"chunking"}, {"model_load"}, {"create_index"}, {"upsert"}}

\* the RAG step of upload_document runs, and the handler returns the document
UploadRag ==
    /\ pending.op = "rag"
    /\ \E faults \in RagFaults :
           \E r \in {upload_document_rag(Cur, pending.document, pending.effects, faults)} :
               Finish(pending.args, r)
    /\ pending' = NoCall
    /\ UNCHANGED concVars

DeleteDocument ==
    \E user \in Users, document_id \in DocIds :
        /\ Return([op |-> "delete_document", user |-> user, document_id |-> document_id],
                  delete_document(Cur, user, document_id))
        /\ UNCHANGED <<pending, concVars>>

GetDocumentStats ==
    \E user \in Users, document_id \in DocIds :
        /\ Return([op |-> "get_document_stats", user |-> user,
                   document_id |-> document_id],
                  get_document_stats(Cur, user, document_id))
        /\ UNCHANGED <<pending, concVars>>

Questions == {"q", " "}
TopKs == {0, 1, 2, 11}
DetailLevels == {"brief", "detailed", "verbose"}
AskFaults == {{}, {"model_load"}, {"search"}, {"unindexed"}}

\* ask_question up to its return, or up to the generation call answer_query makes,
\* where the handler waits for the remote service
AskQuestion ==
    \E user \in Users, question \in Questions, document_id \in DocIds, top_k \in TopKs,
       detail_level \in DetailLevels, faults \in AskFaults :
        LET args == [op |-> "ask_question", user |-> user, question |-> question,
                     document_id |-> document_id, top_k |-> top_k,
                     detail_level |-> detail_level]
        IN  \E a \in ask_question(Cur, user, question, document_id, top_k, detail_level,
                                  faults) :
                /\ UNCHANGED concVars
                /\ IF a.phase = "generating"
                   THEN /\ Apply(a.st)
                        /\ pending' = [op |-> "generate_content", args |-> args,
                                       search_results |-> a.search_results,
                                       context_parts |-> a.context_parts,
                                       detail_level |-> a.detail_level,
                                       effects |-> a.effects]
                        /\ UNCHANGED ret
                   ELSE /\ Return(args, a)
                        /\ UNCHANGED pending

\* the generation call ends, with a text or an exception, and answer_query and
\* ask_question run to their return
GenerateContentReturns ==
    /\ pending.op = "generate_content"
    /\ \E outcome \in GenerationOutcomes :
           ret' = Outcome(pending.args, answer_query_generated(pending, outcome))
    /\ pending' = NoCall
    /\ UNCHANGED <<embedVars, storeVars, concVars>>

Next ==
    \/ UploadDocument
    \/ ProcessDocumentReturns
    \/ UploadRag
    \/ DeleteDocument
    \/ AskQuestion
    \/ GenerateContentReturns
    \/ GetDocumentStats
    \/ Proceed

Spec == Init /\ [][Next]_vars

\* A caller that has its result goes on, and the text extraction and the RAG step of
\* an upload are local computations that end; the code sets no timeout on the
\* generation call (lines 126-129), so nothing makes that call end when the remote
\* service does not reply.
LiveSpec ==
    Spec /\ WF_vars(Proceed) /\ WF_vars(ProcessDocumentReturns) /\ WF_vars(UploadRag)

(***************************************************************************)
(* SpecStore: any sequence of calls of the functions of vector_store.py,   *)
(* one call at a time.                                                     *)
(***************************************************************************)
StoreFaults == {{}, {"model_load"}, {"get_collections"}, {"create_collection"},
                {"create_index"}, {"upsert"}}

CreateCollection ==
    \E faults \in StoreFaults :
        /\ Return([op |-> "create_collection_if_not_exists"],
                  create_collection_if_not_exists(Cur, faults))
        /\ UNCHANGED <<pending, concVars>>

\* the model instance the vectors below come from
DefaultInst == [name |-> EMBEDDING_MODELS["default"], serial |-> 1]

ChunkLists == {<<>>, <<"a">>, <<"b", "a">>}

\* embeddings arguments: the vectors of the chunk lists, and one of another model
VectorLists == {Encode(DefaultInst, chunks, TRUE) : chunks \in ChunkLists}
               \cup {Encode([name |-> EMBEDDING_MODELS["high_quality"], serial |-> 1],
                            <<"a">>, TRUE)}

StoreDocumentChunks ==
    \E document_id \in DocIds, chunks \in ChunkLists, embeddings \in VectorLists,
       faults \in StoreFaults :
        /\ Return([op |-> "store_document_chunks", document_id |-> document_id,
                   chunks |-> chunks, embeddings |-> embeddings],
                  store_document_chunks(Cur, document_id, chunks, embeddings, faults))
        /\ UNCHANGED <<pending, concVars>>

SearchSimilarChunks ==
    \E query \in Questions, document_id \in DocIds, top_k \in {1, 2},
       faults \in AskFaults :
        \E r \in search_similar_chunks(Cur, query, document_id, top_k, faults) :
            /\ Return([op |-> "search_similar_chunks", query |-> query,
                       document_id |-> document_id, top_k |-> top_k], r)
            /\ UNCHANGED <<pending, concVars>>

DeleteDocumentChunks ==
    \E document_id \in DocIds, faults \in {{}, {"delete"}, {"unindexed"}} :
        /\ Return([op |-> "delete_document_chunks", document_id |-> document_id],
                  delete_document_chunks(Cur, document_id, faults))
        /\ UNCHANGED <<pending, concVars>>

NextStore ==
    \/ CreateCollection
    \/ StoreDocumentChunks
    \/ SearchSimilarChunks
    \/ DeleteDocumentChunks
    \/ Proceed

SpecStore == Init /\ [][NextStore]_vars

(***************************************************************************)
(* SpecConc: two threads (the upload path and the query path) call         *)
(* get_embedding_model at the same time.  The function takes no lock, so   *)
(* its reads and writes of the two globals interleave; one action per      *)
(* read or write of a global (embeddings.py lines 40-52).                  *)
(***************************************************************************)
\* line 32: a thread enters get_embedding_model(model_name)
ConcCall(t) ==
    /\ pc[t] = "idle"
    /\ \E model_name \in ModelArgs : req' = [req EXCEPT ![t] = model_name]
    /\ pc' = [pc EXCEPT ![t] = "line43_model"]
    /\ UNCHANGED <<embedVars, ret, storeVars, pending, got>>

\* line 43, left operand: _embedding_model is not None
ConcTestModel(t) ==
    /\ pc[t] = "line43_model"
    /\ pc' = [pc EXCEPT ![t] = IF embedding_model # NoModel THEN "line43_name"
                                                              ELSE "line48"]
    /\ UNCHANGED <<embedVars, ret, storeVars, pending, req, got>>

\* line 43, right operand: _current_model_name == actual_model
ConcTestName(t) ==
    /\ pc[t] = "line43_name"
    /\ pc' = [pc EXCEPT ![t] = IF current_model_name = ActualModel(req[t]) THEN "line44"
                                                                            ELSE "line48"]
    /\ UNCHANGED <<embedVars, ret, storeVars, pending, req, got>>

\* line 44: return _embedding_model
ConcReturnCached(t) ==
    /\ pc[t] = "line44"
    /\ got' = [got EXCEPT ![t] = embedding_model]
    /\ pc' = [pc EXCEPT ![t] = "done"]
    /\ UNCHANGED <<embedVars, ret, storeVars, pending, req>>

\* line 48: _embedding_model = SentenceTransformer(actual_model)
ConcLoad(t) ==
    /\ pc[t] = "line48"
    /\ TotalConstructed(Cur) < MaxLoads
    /\ LET m == ActualModel(req[t])
       IN  /\ constructed' = [constructed EXCEPT ![m] = @ + 1]
           /\ embedding_model' = [name |-> m, serial |-> constructed[m] + 1]
    /\ pc' = [pc EXCEPT ![t] = "line49"]
    /\ UNCHANGED <<current_model_name, cache, ret, storeVars, pending, req, got>>

\* line 48 when the constructor raises: the exception leaves the function
ConcLoadRaises(t) ==
    /\ pc[t] = "line48"
    /\ got' = [got EXCEPT ![t] = NoModel]
    /\ pc' = [pc EXCEPT ![t] = "raised"]
    /\ UNCHANGED <<embedVars, ret, storeVars, pending, req>>

\* line 49: _current_model_name = actual_model
ConcSetName(t) ==
    /\ pc[t] = "line49"
    /\ current_model_name' = ActualModel(req[t])
    /\ pc' = [pc EXCEPT ![t] = "line52"]
    /\ UNCHANGED <<embedding_model, constructed, cache, ret, storeVars, pending, req, got>>

\* line 52: return _embedding_model
ConcReturnLoaded(t) ==
    /\ pc[t] = "line52"
    /\ got' = [got EXCEPT ![t] = embedding_model]
    /\ pc' = [pc EXCEPT ![t] = "done"]
    /\ UNCHANGED <<embedVars, ret, storeVars, pending, req>>

\* the caller goes on with the returned model (or the exception)
ConcTake(t) ==
    /\ pc[t] \in {"done", "raised"}
    /\ pc' = [pc EXCEPT ![t] = "idle"]
    /\ got' = [got EXCEPT ![t] = NoModel]
    /\ UNCHANGED <<embedVars, ret, storeVars, pending, req>>

NextConc ==
    \E t \in Threads :
        \/ ConcCall(t)
        \/ ConcTestModel(t)
        \/ ConcTestName(t)
        \/ ConcReturnCached(t)
        \/ ConcLoad(t)
        \/ ConcLoadRaises(t)
        \/ ConcSetName(t)
        \/ ConcReturnLoaded(t)
        \/ ConcTake(t)

SpecConc == Init /\ [][NextConc]_vars

(***************************************************************************)
(* app/rag/chunking.py.  A text is a sequence of characters of a small     *)
(* alphabet: a capital letter, a small letter, a full stop and a space,    *)
(* and for smart_chunking a hash sign and a newline as well.  A sentence   *)
(* and a chunk are sequences of characters too.                            *)
(***************************************************************************)
Alphabet == {"N", "o", ".", " "}
SmartAlphabet == Alphabet \cup {"#", "\n"}

\* the texts of at most n characters of the alphabet
TextsUpTo(alphabet, n) == UNION {[1..k -> alphabet] : k \in 0..n}

\* the characters \s and str.strip() take for whitespace
IsSpace(c) == c \in {" ", "\n"}

\* str.strip() of a sequence of characters
RECURSIVE Strip(_)
Strip(str) ==
    IF str = <<>> THEN <<>>
    ELSE IF IsSpace(Head(str)) THEN Strip(Tail(str))
    ELSE IF IsSpace(str[Len(str)]) THEN Strip(SubSeq(str, 1, Len(str) - 1))
    ELSE str

\* 'not text or len(text.strip()) == 0' (lines 35 and 249)
IsBlankText(text) == Strip(text) = <<>>

\* The full stop at position i closes an abbreviation of lines 94-119, which line 123
\* replaces by a placeholder without a full stop.  Of the abbreviations of the table
\* the alphabet spells one, 'No.'.
Protected(text, i) ==
    /\ i >= 3
    /\ text[i] = "."
    /\ text[i - 1] = "o"
    /\ text[i - 2] = "N"

\* the first position from i on that holds no whitespace (Len(text) + 1 if none)
RECURSIVE SkipSpaces(_, _)
SkipSpaces(text, i) ==
    IF i <= Len(text) /\ IsSpace(text[i]) THEN SkipSpaces(text, i + 1) ELSE i

\* The pattern (?<=[.!?])\s+(?=[A-Z0-9]) of line 127 matches at position i: a run of
\* whitespace that follows a sentence end and is followed by a capital or a digit.
IsBoundary(text, i) ==
    /\ i > 1
    /\ i <= Len(text)
    /\ IsSpace(text[i])
    /\ text[i - 1] = "."
    /\ ~Protected(text, i - 1)
    /\ LET j == SkipSpaces(text, i) IN j <= Len(text) /\ text[j] = "N"

\* re.split of line 127 from position i on, piece being the text since the last match
RECURSIVE Pieces(_, _, _)
Pieces(text, i, piece) ==
    IF i > Len(text) THEN <<piece>>
    ELSE IF IsBoundary(text, i)
    THEN <<piece>> \o Pieces(text, SkipSpaces(text, i), <<>>)
    ELSE Pieces(text, i + 1, Append(piece, text[i]))

\* split_into_sentences(text): the pieces, stripped, without the empty ones
split_into_sentences(text) ==
    LET pieces == Pieces(text, 1, <<>>)
        stripped == [k \in 1..Len(pieces) |-> Strip(pieces[k])]
    IN  SelectSeq(stripped, LAMBDA str : str # <<>>)

\* ' '.join(strs)
RECURSIVE Join(_)
Join(strs) ==
    IF strs = <<>> THEN <<>>
    ELSE IF Len(strs) = 1 THEN strs[1]
    ELSE strs[1] \o <<" ">> \o Join(Tail(strs))

\* sum(len(str) for str in strs)
RECURSIVE SumLen(_)
SumLen(strs) == IF strs = <<>> THEN 0 ELSE Len(Head(strs)) + SumLen(Tail(strs))

\* The loop of lines 63-68 over reversed(current_chunk), from its k-th sentence down:
\* how many trailing sentences are kept as overlap.
RECURSIVE OverlapCount(_, _, _, _)
OverlapCount(current_chunk, k, overlap_length, overlap_size) ==
    IF k = 0 THEN 0
    ELSE IF overlap_length + Len(current_chunk[k]) <= overlap_size
    THEN 1 + OverlapCount(current_chunk, k - 1,
                          overlap_length + Len(current_chunk[k]), overlap_size)
    ELSE 0

\* the last n elements of a sequence
LastN(seq, n) == SubSeq(seq, Len(seq) - n + 1, Len(seq))

\* A chunk_text built at line 56 or line 80: its text, the positions of its sentences
\* in the input, the number of them carried over as overlap from the chunk closed
\* before, and whether it was appended to chunks.
Candidate(current_chunk, current_idx, seeded, min_chunk_size, at) ==
    [text |-> Join(current_chunk), idx |-> current_idx, seeded |-> seeded,
     kept |-> Len(Join(current_chunk)) >= min_chunk_size, at |-> at]

\* the chunks a list of candidates leaves in chunks
RECURSIVE KeptTexts(_)
KeptTexts(cands) ==
    IF cands = <<>> THEN <<>>
    ELSE IF Head(cands).kept THEN <<Head(cands).text>> \o KeptTexts(Tail(cands))
    ELSE KeptTexts(Tail(cands))

\* the window boundary of lines 54-72 closing every chunk, whatever its length
semantic_chunk_loop_keep_all(sentences, k, l, chunk_size, overlap_size, min_chunk_size) ==
    LET sentence == sentences[k]
        n == OverlapCount(l.current_chunk, Len(l.current_chunk), 0, overlap_size)
    IN  IF l.current_length + Len(sentence) > chunk_size /\ l.current_chunk # <<>>
        THEN [candidates |-> Append(l.candidates,
                                    Candidate(l.current_chunk, l.current_idx, l.seeded,
                                              0, "boundary")),
              current_chunk |-> Append(LastN(l.current_chunk, n), sentence),
              current_idx |-> Append(LastN(l.current_idx, n), k),
              seeded |-> n,
              current_length |-> SumLen(LastN(l.current_chunk, n)) + Len(sentence)]
        ELSE [candidates |-> l.candidates,
              current_chunk |-> Append(l.current_chunk, sentence),
              current_idx |-> Append(l.current_idx, k),
              seeded |-> l.seeded,
              current_length |-> l.current_length + Len(sentence)]

\* the loop closing the chunk already when the sentence fills it exactly (>= for >)
semantic_chunk_loop_close_when_full(sentences, k, l, chunk_size, overlap_size, min_chunk_size) ==
    LET sentence == sentences[k]
        n == OverlapCount(l.current_chunk, Len(l.current_chunk), 0, overlap_size)
    IN  IF l.current_length + Len(sentence) >= chunk_size /\ l.current_chunk # <<>>
        THEN [candidates |-> Append(l.candidates,
                                    Candidate(l.current_chunk, l.current_idx, l.seeded,
                                              min_chunk_size, "boundary")),
              current_chunk |-> Append(LastN(l.current_chunk, n), sentence),
              current_idx |-> Append(LastN(l.current_idx, n), k),
              seeded |-> n,
              current_length |-> SumLen(LastN(l.current_chunk, n)) + Len(sentence)]
        ELSE [candidates |-> l.candidates,
              current_chunk |-> Append(l.current_chunk, sentence),
              current_idx |-> Append(l.current_idx, k),
              seeded |-> l.seeded,
              current_length |-> l.current_length + Len(sentence)]

\* the loop starting the new chunk from the overlap alone, without the sentence that
\* did not fit
semantic_chunk_loop_lose_sentence(sentences, k, l, chunk_size, overlap_size, min_chunk_size) ==
    LET sentence == sentences[k]
        n == OverlapCount(l.current_chunk, Len(l.current_chunk), 0, overlap_size)
    IN  IF l.current_length + Len(sentence) > chunk_size /\ l.current_chunk # <<>>
        THEN [candidates |-> Append(l.candidates,
                                    Candidate(l.current_chunk, l.current_idx, l.seeded,
                                              min_chunk_size, "boundary")),
              current_chunk |-> LastN(l.current_chunk, n),
              current_idx |-> LastN(l.current_idx, n),
              seeded |-> n,
              current_length |-> SumLen(LastN(l.current_chunk, n))]
        ELSE [candidates |-> l.candidates,
              current_chunk |-> Append(l.current_chunk, sentence),
              current_idx |-> Append(l.current_idx, k),
              seeded |-> l.seeded,
              current_length |-> l.current_length + Len(sentence)]

\* One pass of the loop of lines 50-76, for the k-th sentence.  l holds the loop's
\* variables; candidates stands for chunks (KeptTexts gives chunks), and current_idx
\* and seeded follow current_chunk.
semantic_chunk_loop(sentences, k, l, chunk_size, overlap_size, min_chunk_size) ==
    LET sentence == sentences[k]
        n == OverlapCount(l.current_chunk, Len(l.current_chunk), 0, overlap_size)
    IN  IF l.current_length + Len(sentence) > chunk_size /\ l.current_chunk # <<>>
        THEN [candidates |-> Append(l.candidates,
                                    Candidate(l.current_chunk, l.current_idx, l.seeded,
                                              min_chunk_size, "boundary")),
              current_chunk |-> Append(LastN(l.current_chunk, n), sentence),
              current_idx |-> Append(LastN(l.current_idx, n), k),
              seeded |-> n,
              current_length |-> SumLen(LastN(l.current_chunk, n)) + Len(sentence)]
        ELSE [candidates |-> l.candidates,
              current_chunk |-> Append(l.current_chunk, sentence),
              current_idx |-> Append(l.current_idx, k),
              seeded |-> l.seeded,
              current_length |-> l.current_length + Len(sentence)]

\* the loop of lines 50-76 from the k-th sentence on
RECURSIVE semantic_chunk_from(_, _, _, _, _, _)
semantic_chunk_from(sentences, k, l, chunk_size, overlap_size, min_chunk_size) ==
    IF k > Len(sentences) THEN l
    ELSE semantic_chunk_from(sentences, k + 1,
                             semantic_chunk_loop(sentences, k, l, chunk_size,
                                                 overlap_size, min_chunk_size),
                             chunk_size, overlap_size, min_chunk_size)

\* semantic_chunk_with_overlap(text, chunk_size, overlap_size, min_chunk_size): value
\* is the list returned; sentences and candidates record what it was built from
semantic_chunk_with_overlap(text, chunk_size, overlap_size, min_chunk_size) ==
    LET sentences == split_into_sentences(text)
        l == semantic_chunk_from(sentences, 1,
                                 [candidates |-> <<>>, current_chunk |-> <<>>,
                                  current_idx |-> <<>>, seeded |-> 0,
                                  current_length |-> 0],
                                 chunk_size, overlap_size, min_chunk_size)
        candidates == IF l.current_chunk # <<>>
                      THEN Append(l.candidates,
                                  Candidate(l.current_chunk, l.current_idx, l.seeded,
                                            min_chunk_size, "end"))
                      ELSE l.candidates
    IN  IF IsBlankText(text) \/ sentences = <<>>
        THEN [status |-> "ok", value |-> <<>>, sentences |-> <<>>, candidates |-> <<>>]
        ELSE [status |-> "ok", value |-> KeptTexts(candidates), sentences |-> sentences,
              candidates |-> candidates]

\* hierarchical_chunking(text, max_chunk_size) for the texts of the model, which have
\* fewer than 50 characters: a section is emitted only when its content has more than
\* 50 characters (lines 182 and 207), and no content is longer than the text
hierarchical_chunking(text, max_chunk_size) == <<>>

\* the document-type hints of a call, and document_type.lower().strip() of each
DocumentTypes == {"general", "report", "contract", " Legal ", "AGREEMENT", "contracts"}

LowerStrip(document_type) ==
    CASE document_type = " Legal "   -> "legal"
      [] document_type = "AGREEMENT" -> "agreement"
      [] OTHER                       -> document_type

\* position i of the text starts a line (the ^ of a MULTILINE pattern)
LineStart(text, i) == i = 1 \/ text[i - 1] = "\n"

\* the first position from i on that holds no hash sign
RECURSIVE SkipHashes(_, _)
SkipHashes(text, i) ==
    IF i <= Len(text) /\ text[i] = "#" THEN SkipHashes(text, i + 1) ELSE i

\* The search of lines 257-261 for a structure marker at the start of a line.  Of the
\* six alternatives of the pattern the alphabet spells one, ^#+\s+ (a Markdown header).
HasStructure(text) ==
    \E i \in 1..Len(text) :
        /\ LineStart(text, i)
        /\ text[i] = "#"
        /\ LET j == SkipHashes(text, i) IN j <= Len(text) /\ IsSpace(text[j])

\* smart_chunking taking the hint as it is given, without lower() and strip()
smart_chunking_raw_hint(text, document_type, chunk_size, overlap_size) ==
    LET semantic == semantic_chunk_with_overlap(text, chunk_size, overlap_size, 50)
    IN  IF IsBlankText(text)
        THEN [status |-> "ok", value |-> <<>>, call |-> [fn |-> "none"]]
        ELSE IF document_type \in {"contract", "legal", "agreement"} \/ HasStructure(text)
        THEN [status |-> "ok",
              value |-> hierarchical_chunking(text, chunk_size * 2),
              call |-> [fn |-> "hierarchical_chunking", text |-> text,
                        max_chunk_size |-> chunk_size * 2]]
        ELSE [status |-> "ok", value |-> semantic.value,
              call |-> [fn |-> "semantic_chunk_with_overlap", text |-> text,
                        chunk_size |-> chunk_size, overlap_size |-> overlap_size]]

\* smart_chunking(text, document_type, chunk_size, overlap_size): value is the list
\* returned, call the strategy function it called and the arguments it passed.  The
\* chunks of the hierarchical strategy are '[section]\ncontent' for each of its
\* sections (lines 269-272), of which the texts of the model have none.
smart_chunking(text, document_type, chunk_size, overlap_size) ==
    LET doc_type == LowerStrip(document_type)
        semantic == semantic_chunk_with_overlap(text, chunk_size, overlap_size, 50)
    IN  IF IsBlankText(text)
        THEN [status |-> "ok", value |-> <<>>, call |-> [fn |-> "none"]]
        ELSE IF doc_type \in {"contract", "legal", "agreement"} \/ HasStructure(text)
        THEN [status |-> "ok",
              value |-> hierarchical_chunking(text, chunk_size * 2),
              call |-> [fn |-> "hierarchical_chunking", text |-> text,
                        max_chunk_size |-> chunk_size * 2]]
        ELSE [status |-> "ok", value |-> semantic.value,
              call |-> [fn |-> "semantic_chunk_with_overlap", text |-> text,
                        chunk_size |-> chunk_size, overlap_size |-> overlap_size]]

(***************************************************************************)
(* SpecChunk: calls of semantic_chunk_with_overlap on every text of at     *)
(* most MaxTextLen characters, and calls of smart_chunking on every text   *)
(* of at most MaxTextLen - 2 characters of the larger alphabet.            *)
(***************************************************************************)
ChunkSizes == {2, 3}
OverlapSizes == {0, 1, 3}
MinChunkSizes == {0, 3}

SemanticChunkWithOverlap ==
    /\ ret = Idle
    /\ pending = NoCall
    /\ \E text \in TextsUpTo(Alphabet, MaxTextLen), chunk_size \in ChunkSizes,
          overlap_size \in OverlapSizes, min_chunk_size \in MinChunkSizes :
           ret' = Outcome([op |-> "semantic_chunk_with_overlap", text |-> text,
                           chunk_size |-> chunk_size, overlap_size |-> overlap_size,
                           min_chunk_size |-> min_chunk_size],
                          semantic_chunk_with_overlap(text, chunk_size, overlap_size,
                                                      min_chunk_size))
    /\ UNCHANGED <<embedVars, storeVars, pending, concVars>>

SmartChunking ==
    /\ ret = Idle
    /\ pending = NoCall
    /\ \E text \in TextsUpTo(SmartAlphabet, MaxTextLen - 2),
          document_type \in DocumentTypes, chunk_size \in ChunkSizes,
          overlap_size \in OverlapSizes :
           ret' = Outcome([op |-> "smart_chunking", text |-> text,
                           document_type |-> document_type, chunk_size |-> chunk_size,
                           overlap_size |-> overlap_size],
                          smart_chunking(text, document_type, chunk_size, overlap_size))
    /\ UNCHANGED <<embedVars, storeVars, pending, concVars>>

NextChunk ==
    \/ SemanticChunkWithOverlap
    \/ SmartChunking
    \/ Proceed

SpecChunk == Init /\ [][NextChunk]_vars

(***************************************************************************)
(* app/rag/evaluation.py: assess_overall_quality.  A metrics dict is a     *)
(* record of its values with the set of the keys it holds; scores and      *)
(* ratios are in hundredths.                                               *)
(***************************************************************************)
\* dict.get(key, default)
Get(metrics, key, default) == IF key \in metrics.keys THEN metrics[key] ELSE default

\* values of avg_score around the thresholds 0.6 and 0.8 of lines 219-222
AvgScores == {-50, 0, 60, 61, 80, 81, 100}

\* values of high_quality_chunks around the thresholds of lines 224-227
HighQualityCounts == {0, 1, 2, 3}

\* the retrieval_metrics dicts: any of the two keys may be missing, as both are in
\* what evaluate_retrieval returns for no chunks (lines 33-37)
RetrievalMetrics ==
    {[keys |-> keys,
      avg_score |-> IF "avg_score" \in keys THEN a ELSE 0,
      high_quality_chunks |-> IF "high_quality_chunks" \in keys THEN h ELSE 0] :
         keys \in SUBSET {"avg_score", "high_quality_chunks"},
         a \in AvgScores, h \in HighQualityCounts}

\* values of answer_length and of context_word_overlap around the thresholds of
\* lines 230 and 236
AnswerLengths == {0, 100, 101}
WordOverlaps == {0, 30, 31, 100}

\* the answer_metrics dicts
AnswerMetrics ==
    {[keys |-> keys,
      answer_length |-> IF "answer_length" \in keys THEN n ELSE 0,
      is_generic |-> IF "is_generic" \in keys THEN g ELSE FALSE,
      context_word_overlap |-> IF "context_word_overlap" \in keys THEN w ELSE 0] :
         keys \in SUBSET {"answer_length", "is_generic", "context_word_overlap"},
         n \in AnswerLengths, g \in BOOLEAN, w \in WordOverlaps}

\* the confidence labels answer_query produces, and a label it does not
ConfidenceLabels == {"high", "medium", "low", "none", "error", "HIGH"}

\* the retrieval part with the points of the two avg_score tests exchanged
RetrievalPoints_points_swapped(retrieval_metrics) ==
    (IF Get(retrieval_metrics, "avg_score", 0) > 80 THEN 10
     ELSE IF Get(retrieval_metrics, "avg_score", 0) > 60 THEN 20
     ELSE 0)
    + (IF Get(retrieval_metrics, "high_quality_chunks", 0) >= 2 THEN 20
       ELSE IF Get(retrieval_metrics, "high_quality_chunks", 0) >= 1 THEN 10
       ELSE 0)

\* lines 218-227: the points of the retrieval part
RetrievalPoints(retrieval_metrics) ==
    (IF Get(retrieval_metrics, "avg_score", 0) > 80 THEN 20
     ELSE IF Get(retrieval_metrics, "avg_score", 0) > 60 THEN 10
     ELSE 0)
    + (IF Get(retrieval_metrics, "high_quality_chunks", 0) >= 2 THEN 20
       ELSE IF Get(retrieval_metrics, "high_quality_chunks", 0) >= 1 THEN 10
       ELSE 0)

\* the answer part giving 20 points for the word overlap
AnswerPoints_overlap_20(answer_metrics) ==
    (IF Get(answer_metrics, "answer_length", 0) > 100 THEN 10 ELSE 0)
    + (IF ~Get(answer_metrics, "is_generic", TRUE) THEN 15 ELSE 0)
    + (IF Get(answer_metrics, "context_word_overlap", 0) > 30 THEN 20 ELSE 0)

\* lines 229-237: the points of the answer part
AnswerPoints(answer_metrics) ==
    (IF Get(answer_metrics, "answer_length", 0) > 100 THEN 10 ELSE 0)
    + (IF ~Get(answer_metrics, "is_generic", TRUE) THEN 15 ELSE 0)
    + (IF Get(answer_metrics, "context_word_overlap", 0) > 30 THEN 15 ELSE 0)

\* lines 239-243: the points of the confidence label
ConfidencePoints(confidence) ==
    IF confidence = "high" THEN 20
    ELSE IF confidence = "medium" THEN 10
    ELSE 0

\* lines 245-253: the band of a score
Band(score) ==
    IF score >= 80 THEN "excellent"
    ELSE IF score >= 60 THEN "good"
    ELSE IF score >= 40 THEN "fair"
    ELSE "poor"

\* assess_overall_quality(retrieval_metrics, answer_metrics, confidence): value is the
\* band returned; score and its three parts are the local variable score of the
\* function and what lines 218-227, 229-237 and 239-243 added to it
assess_overall_quality(retrieval_metrics, answer_metrics, confidence) ==
    LET retrieval == RetrievalPoints(retrieval_metrics)
        answer == AnswerPoints(answer_metrics)
        label == ConfidencePoints(confidence)
        score == 0 + retrieval + answer + label
    IN  [status |-> "ok", value |-> Band(score), score |-> score,
         retrieval |-> retrieval, answer |-> answer, label |-> label]

(***************************************************************************)
(* SpecEval: calls of assess_overall_quality.                              *)
(***************************************************************************)
AssessOverallQuality ==
    /\ ret = Idle
    /\ pending = NoCall
    /\ \E retrieval_metrics \in RetrievalMetrics, answer_metrics \in AnswerMetrics,
          confidence \in ConfidenceLabels :
           ret' = Outcome([op |-> "assess_overall_quality",
                           retrieval_metrics |-> retrieval_metrics,
                           answer_metrics |-> answer_metrics,
                           confidence |-> confidence],
                          assess_overall_quality(retrieval_metrics, answer_metrics,
                                                 confidence))
    /\ UNCHANGED <<embedVars, storeVars, pending, concVars>>

NextEval ==
    \/ AssessOverallQuality
    \/ Proceed

SpecEval == Init /\ [][NextEval]_vars

\* C5: under any interleaving of concurrent get_embedding_model calls every caller
\* receives an instance of the model it asked for, and whenever both globals are set
\* (and no caller is between the two assignments of lines 48 and 49)
\* _current_model_name names the model held in _embedding_model.
C5_ConcurrentCallersGetTheirModel ==
    /\ \A t \in Threads : pc[t] = "done" => got[t].name = ActualModel(req[t])
    /\ (/\ \A t \in Threads : pc[t] # "line49"
        /\ embedding_model # NoModel
        /\ current_model_name # None)
           => embedding_model.name = current_model_name

(***************************************************************************)
(* Claims about the embeddings module, checked under SpecEmbed.            *)
(***************************************************************************)
\* a call of the embeddings module that went through get_embedding_model and came back
UsedModel(r) == r.status = "ok" /\ "model_get" \in r.effects

\* C6 (as claimed): a model instance is constructed at most once per distinct model
\* id, whatever other model ids are requested in between.
C6_AtMostOncePerModelId ==
    \A m \in ModelIds : constructed[m] <= 1

\* C6 (amended): the pool holds one model.  A call that asks for the model id that is
\* held constructs nothing and gets the held instance; a call that asks for any other
\* model id (or finds no model held) constructs exactly one new instance of the
\* requested id, which replaces the held one, also when that id was loaded before.
C6_OneSlotPool ==
    [][UsedModel(ret') =>
         LET m == ActualModel(ret'.args.model_name)
         IN  IF embedding_model # NoModel /\ current_model_name = m
             THEN /\ constructed' = constructed
                  /\ embedding_model' = embedding_model
                  /\ current_model_name' = current_model_name
                  /\ "model_load" \notin ret'.effects
             ELSE /\ constructed' = [constructed EXCEPT ![m] = @ + 1]
                  /\ embedding_model' = [name |-> m, serial |-> constructed'[m]]
                  /\ current_model_name' = m
                  /\ "model_load" \in ret'.effects]_vars

\* C6 witness: a model id has been constructed a second time after another id was
\* requested in between, and the call that just returned reused the held instance.
C6_Witness ==
    /\ UsedModel(ret)
    /\ "model_load" \notin ret.effects
    /\ \E m \in ModelIds : constructed[m] = 2 /\ current_model_name = m

\* C7: every vector returned by generate_embeddings called with normalize=true is
\* unit-length, whatever calls came before.
C7_NormalizedIsUnit ==
    (ret.args.op = "generate_embeddings" /\ ret.status = "ok" /\ ret.args.normalize)
        => \A i \in 1..Len(ret.value) : IsUnit(ret.value[i])

\* C8: generate_embeddings([]) returns [] and neither loads nor invokes a model nor
\* reads or writes the cache, whatever the other arguments.
C8_EmptyInputShortCircuit ==
    [][(ret'.args.op = "generate_embeddings" /\ ret'.args.texts = <<>>) =>
         /\ ret'.status = "ok"
         /\ ret'.value = <<>>
         /\ ret'.effects = {}
         /\ UNCHANGED embedVars]_vars

\* C8 witness: generate_embeddings([]) has returned in a call that asked for the cache
\* and a model that is not the one held, with the cache holding an entry.
C8_Witness ==
    /\ ret.args.op = "generate_embeddings"
    /\ ret.args.texts = <<>>
    /\ ret.args.use_cache
    /\ ActualModel(ret.args.model_name) # current_model_name
    /\ DOMAIN cache # {}

(***************************************************************************)
(* Claims about the routes and answer_query, checked under Spec and        *)
(* LiveSpec.                                                               *)
(***************************************************************************)
\* C1: once delete_document has returned for a document, the vector index holds no
\* point whose document_id is that document's id.
C1_DeleteLeavesNoPoints ==
    (ret.args.op = "delete_document" /\ ret.status = "ok")
        => Matching(points, ret.args.document_id) = {}

\* ask_question has returned the result of answer_query
Answered == ret.args.op = "ask_question" /\ ret.status = "ok"

\* C2: when the search filtered to the document returns no results (as it does when
\* the index holds no point of the document), answer_query returns an Answer with
\* confidence 'none', empty sources and empty context, and the generation capability
\* is not called: no call is waiting on it with an empty retrieval, and none was made.
C2_EmptyRetrievalAnswersNone ==
    /\ (Answered /\ (ret.search_results = <<>>
                     \/ Matching(points, ret.args.document_id) = {}))
          => /\ ret.value.confidence = "none"
             /\ ret.value.sources = <<>>
             /\ ret.value.context = <<>>
             /\ "generation" \notin ret.effects
    /\ pending.op = "generate_content"
          => /\ pending.search_results # <<>>
             /\ Matching(points, pending.args.document_id) # {}

\* C2 witness: a question about a ready document that has no point in an existing
\* collection has been answered with confidence 'none'.
C2_Witness ==
    /\ Answered
    /\ ret.value.confidence = "none"
    /\ "search" \in ret.effects
    /\ collection.exists
    /\ documents[ret.args.document_id].status = "ready"

\* the generation call of the answered question raised
GenerationRaised == Answered /\ "generation" \in ret.effects /\ ret.generation.kind = "raise"

\* C3: when the generation call raises after a non-empty retrieval, answer_query
\* returns normally with confidence 'error', an answer carrying the exception's
\* message, and sources holding every retrieved result in retrieval order.
C3_GenerationFailureAnswersError ==
    /\ (ret.args.op = "ask_question" /\ "generation" \in ret.effects) => ret.status = "ok"
    /\ GenerationRaised
          => /\ ret.value.confidence = "error"
             /\ ret.value.answer = {"Error generating answer: ", ret.generation.e}
             /\ ret.search_results # <<>>
             /\ ret.value.sources = ret.search_results
             /\ \A i \in 1..Len(ret.value.sources) :
                    /\ ret.value.sources[i].document_id = ret.args.document_id
                    /\ \A j \in 1..Len(ret.value.sources) :
                          i < j => ret.value.sources[i].score >= ret.value.sources[j].score

\* C3 witness: the generation call raised after a retrieval of two results.
C3_Witness ==
    /\ GenerationRaised
    /\ Len(ret.value.sources) = 2
    /\ ret.value.sources[1].text # ret.value.sources[2].text

\* C4: every answer_query call that reaches the generation call eventually returns.
C4_EveryCallReturns ==
    (pending.op = "generate_content") ~> (pending = NoCall)

(***************************************************************************)
(* Claims about the vector store, checked under SpecStore.                 *)
(***************************************************************************)
\* store_document_chunks has returned normally
Stored(r) == r.args.op = "store_document_chunks" /\ r.status = "ok"

\* C9: a call of store_document_chunks that returns normally was given chunk and
\* vector sequences of equal length, returns len(chunks), and has added one point per
\* chunk, point i carrying chunks[i], embeddings[i], the document_id and ordinal i.
C9_OnePointPerChunk ==
    Stored(ret)
        => /\ Len(ret.args.chunks) = Len(ret.args.embeddings)
           /\ ret.value = Len(ret.args.chunks)
           /\ Len(ret.ids) = Len(ret.args.chunks)
           /\ \A i \in 1..Len(ret.args.chunks) :
                  /\ ret.ids[i] \in DOMAIN points
                  /\ points[ret.ids[i]].vector = ret.args.embeddings[i]
                  /\ points[ret.ids[i]].payload.text = ret.args.chunks[i]
                  /\ points[ret.ids[i]].payload.document_id = ret.args.document_id
                  /\ points[ret.ids[i]].payload.chunk_index = i - 1

Searched == ret.args.op = "search_similar_chunks" /\ ret.status = "ok"

\* C11: search_similar_chunks called with document_id=D returns no result whose
\* document_id differs from D, whatever upserts and deletes over several documents
\* came before.
C11_SearchStaysInDocument ==
    Searched => \A i \in 1..Len(ret.value) : ret.value[i].document_id = ret.args.document_id

\* C11 witness: a search filtered to D has returned a result while the index also
\* holds a point of another document.
C11_Witness ==
    /\ Searched
    /\ Len(ret.value) >= 1
    /\ \E id \in DOMAIN points : points[id].payload.document_id # ret.args.document_id

\* C12: delete_document_chunks(D) followed, with no upsert for D in between, by a
\* search filtered to D returns an empty sequence: a delete that returns leaves no
\* point of D, no call but an upsert for D gives D a point, and a search filtered to a
\* document without points returns the empty sequence.  Deleting when D has no points
\* is not an error: unless the request itself fails, the call returns normally.
C12_DeleteThenSearchEmpty ==
    [][/\ (ret'.args.op = "delete_document_chunks" /\ ret'.status = "ok")
             => Matching(points', ret'.args.document_id) = {}
       /\ \A D \in DocIds :
             (/\ Matching(points, D) = {}
              /\ ~(ret'.args.op = "store_document_chunks" /\ ret'.args.document_id = D))
                 => Matching(points', D) = {}
       /\ (/\ ret'.args.op = "search_similar_chunks"
           /\ ret'.status = "ok"
           /\ Matching(points, ret'.args.document_id) = {})
             => ret'.value = <<>>
       /\ (/\ ret'.args.op = "delete_document_chunks"
           /\ Matching(points, ret'.args.document_id) = {}
           /\ ret'.error \notin {"request failed", "index required"})
             => ret'.status = "ok"]_vars

\* C13: whenever a call of create_collection_if_not_exists has returned normally and
\* the collection exists, the collection has the index on document_id, also when an
\* earlier call failed between creating the collection and creating the index.
C13_CollectionHasIndex ==
    (/\ ret.args.op = "create_collection_if_not_exists"
     /\ ret.status = "ok"
     /\ collection.exists)
        => collection.indexed

\* C14: a call of create_collection_if_not_exists made when the collection exists
\* issues no create-collection and no create-index request, loads no model and leaves
\* the collection, its index state and its points as they were, so a second call
\* leaves the state the first one left.
C14_CreateCollectionIdempotent ==
    [][(ret'.args.op = "create_collection_if_not_exists" /\ collection.exists)
          => /\ "create_collection" \notin ret'.effects
             /\ "create_index" \notin ret'.effects
             /\ ret'.effects \subseteq {"get_collections"}
             /\ UNCHANGED <<collection, points, nextUuid, embedVars>>]_vars

\* C14 witness: a call made when the collection existed has returned normally.
C14_Witness ==
    /\ ret.args.op = "create_collection_if_not_exists"
    /\ ret.status = "ok"
    /\ ret.effects = {"get_collections"}
    /\ collection.exists
    /\ collection.indexed
    /\ DOMAIN points # {}

\* the stages of the pipeline: segmenting, embedding, upserting, searching, generating
PipelineStages == {"chunking", "cache_read", "cache_write", "model_get", "model_load",
                   "encode", "get_collections", "create_collection", "create_index",
                   "upsert", "search", "generation"}

\* C15: the stages of the pipeline run during upload_document and ask_question only
\* for a document whose status is 'ready'; for a document in status 'processing' or
\* 'error' none is invoked.
C15_PipelineOnlyWhenReady ==
    /\ (ret.args.op = "upload_document" /\ ret.effects \cap PipelineStages # {})
          => /\ ret.status = "ok"
             /\ ret.value.status = "ready"
             /\ documents[ret.value.id].status = "ready"
    /\ (ret.args.op = "ask_question" /\ ret.effects \cap PipelineStages # {})
          => /\ ret.args.document_id \in DOMAIN documents
             /\ documents[ret.args.document_id].status = "ready"
    /\ pending.op = "generate_content"
          => /\ pending.args.document_id \in DOMAIN documents
             /\ documents[pending.args.document_id].status = "ready"

\* C15 witness: a well-formed question of the owner about a document in status
\* 'processing' has been refused with no stage run.
C15_Witness ==
    /\ ret.args.op = "ask_question"
    /\ ret.status = "http_400"
    /\ ret.args.top_k \in 1..10
    /\ ret.args.detail_level \in {"brief", "detailed", "comprehensive"}
    /\ ret.args.document_id \in DOMAIN documents
    /\ documents[ret.args.document_id].status = "processing"
    /\ documents[ret.args.document_id].user_id = ret.args.user
    /\ ret.effects = {}

\* C16: ask_question with top_k outside 1..10 or a detail_level that is none of
\* brief, detailed, comprehensive returns its validation error whatever the document
\* (so before the lookup), with no search, embedding or generation; upload_document
\* of an unsupported file type returns its error with no file written and no record
\* created.  Neither changes the state.
C16_ValidationBeforeWork ==
    [][/\ (/\ ret'.args.op = "ask_question"
           /\ \/ ret'.args.top_k \notin 1..10
              \/ ret'.args.detail_level \notin {"brief", "detailed", "comprehensive"})
             => /\ ret'.status = "http_400"
                /\ ret'.effects = {}
                /\ UNCHANGED <<embedVars, storeVars, pending>>
       /\ (ret'.args.op = "upload_document" /\ ret'.args.filename = "notes.txt")
             => /\ ret'.status = "http_400"
                /\ ret'.effects = {}
                /\ UNCHANGED <<embedVars, storeVars, pending>>]_vars

\* C16 witness: a question with top_k = 11 about a document that does not exist has
\* been refused as invalid.
C16_Witness ==
    /\ ret.args.op = "ask_question"
    /\ ret.args.top_k = 11
    /\ ret.args.document_id \notin DOMAIN documents
    /\ ret.status = "http_400"
    /\ DOMAIN documents # {}

\* C17: when chunking, embedding or storing raises during upload_document, the upload
\* still returns the document record, and the document's status and extracted text are
\* those the text extraction set, in the record returned and in the table.
C17_UploadAbsorbsRagFailure ==
    /\ (ret.args.op = "upload_document" /\ "chunking" \in ret.effects)
          => ret.status = "ok"
    /\ (ret.args.op = "upload_document" /\ ret.absorbed)
          => /\ ret.status = "ok"
             /\ ret.value.status = "ready"
             /\ ret.value.extracted_text = ret.args.extraction.text
             /\ ret.value.id \in DOMAIN documents
             /\ documents[ret.value.id] = ret.value

\* C17 witness: an upload whose storing step raised after the embedding has returned
\* the document.
C17_Witness ==
    /\ ret.args.op = "upload_document"
    /\ ret.absorbed
    /\ "upsert" \in ret.effects
    /\ Matching(points, ret.value.id) = {}

\* C18: the document returned by the upload endpoint always has status 'processing'.
C18_UploadReturnsProcessing ==
    (ret.args.op = "upload_document" /\ ret.status = "ok")
        => ret.value.status = "processing"

\* C19: the stats operation for an existing, owned document returns the chunk count,
\* equal to the number of index points stored for the document, and the average
\* chunk size.
C19_StatsCountsPoints ==
    (ret.args.op = "get_document_stats" /\ ret.status = "ok")
        => /\ {"chunks_count", "avg_chunk_size"} \subseteq DOMAIN ret.value
           /\ ret.value.chunks_count
                 = Cardinality(Matching(points, ret.args.document_id))

\* what a call of ask_question did up to the generation call, but for its
\* detail_level: how it ended, the stages run, the state left and the results retrieved
Retrieval(a) ==
    [phase |-> a.phase, status |-> a.status, effects |-> a.effects, st |-> a.st,
     search_results |-> IF "search_results" \in DOMAIN a THEN a.search_results ELSE <<>>]

\* C20: in every state where a request can start, two ask calls that differ only in
\* detail_level (both valid) run the same search and retrieve the same sources: the
\* outcomes possible for the one are, detail_level aside, the outcomes possible for
\* the other.
C20_DetailLevelNotInRetrieval ==
    (ret = Idle /\ pending = NoCall) =>
    \A user \in Users, question \in Questions, document_id \in DocIds, top_k \in TopKs,
       faults \in AskFaults :
        {Retrieval(a) : a \in ask_question(Cur, user, question, document_id, top_k,
                                           "brief", faults)}
        = {Retrieval(a) : a \in ask_question(Cur, user, question, document_id, top_k,
                                             "detailed", faults)}

\* C20 witness: a question asked with detail_level 'brief' and top_k = 2 has retrieved
\* two results and is at the generation call.
C20_Witness ==
    /\ pending.op = "generate_content"
    /\ pending.args.detail_level = "brief"
    /\ pending.args.top_k = 2
    /\ Len(pending.search_results) = 2

\* a call of semantic_chunk_with_overlap has returned
Chunked == ret.args.op = "semantic_chunk_with_overlap"

\* the sentences of the candidate chunk c of the call that returned
SentencesOf(c) == [i \in 1..Len(c.idx) |-> ret.sentences[c.idx[i]]]

\* C21: at every window boundary of the sliding-window strategy the text the next
\* chunk shares with the chunk just closed is made of trailing sentences of the closed
\* chunk, has at most overlap_size characters, and is the longest run of trailing
\* sentences of the closed chunk that fits in overlap_size.
C21_OverlapAtMostOverlapSize ==
    Chunked =>
        \A j \in 2..Len(ret.candidates) :
            LET closed == ret.candidates[j - 1]
                next == ret.candidates[j]
                shared == Join(SubSeq(SentencesOf(next), 1, next.seeded))
            IN  /\ next.seeded <= Len(closed.idx)
                /\ SubSeq(next.idx, 1, next.seeded) = LastN(closed.idx, next.seeded)
                /\ Len(shared) <= ret.args.overlap_size
                /\ \A n \in 0..Len(closed.idx) :
                       SumLen(LastN(SentencesOf(closed), n)) <= ret.args.overlap_size
                           => n <= next.seeded

\* C22: every chunk semantic_chunk_with_overlap returns is a non-empty string of at
\* least min_chunk_size characters, and the chunks returned are exactly the candidate
\* chunks, closed at a window boundary or at the end of the text, that are not shorter
\* than min_chunk_size.
C22_ChunksAtLeastMinSize ==
    Chunked =>
        /\ \A j \in 1..Len(ret.value) :
               /\ ret.value[j] # <<>>
               /\ Len(ret.value[j]) >= ret.args.min_chunk_size
        /\ ret.value = SelectSeq([j \in 1..Len(ret.candidates) |-> ret.candidates[j].text],
                                 LAMBDA str : Len(str) >= ret.args.min_chunk_size)

\* a chunk closed at a window boundary was dropped, a later one was returned, and the
\* chunk at the end of the text was dropped too
C22_Witness ==
    /\ Chunked
    /\ ret.value # <<>>
    /\ \E j \in 1..Len(ret.candidates) :
           ret.candidates[j].at = "boundary" /\ ~ret.candidates[j].kept
    /\ \E j \in 1..Len(ret.candidates) :
           ret.candidates[j].at = "end" /\ ~ret.candidates[j].kept

\* the text of the call is not blank and its sentences together fit within chunk_size
FitsOneChunk ==
    /\ Chunked
    /\ ~IsBlankText(ret.args.text)
    /\ SumLen(split_into_sentences(ret.args.text)) <= ret.args.chunk_size

\* C23 as claimed: for non-empty text whose sentences together fit within chunk_size
\* the function returns exactly one chunk, made of all the sentences in order.
C23_ShortTextIsOneChunk ==
    FitsOneChunk => ret.value = <<Join(split_into_sentences(ret.args.text))>>

\* C23 as amended: for non-empty text whose sentences together fit within chunk_size
\* the function returns exactly one chunk, made of all the sentences in order joined
\* by single spaces, when that chunk has at least min_chunk_size characters, and no
\* chunk when it is shorter.
C23_ShortTextIsOneChunkIfLongEnough ==
    FitsOneChunk =>
        LET whole == Join(split_into_sentences(ret.args.text))
        IN  IF Len(whole) >= ret.args.min_chunk_size
            THEN ret.value = <<whole>>
            ELSE ret.value = <<>>

\* a text of two sentences that fit came back as one chunk
C23_Witness ==
    /\ FitsOneChunk
    /\ Len(split_into_sentences(ret.args.text)) = 2
    /\ Len(ret.value) = 1

\* a call of smart_chunking has returned
SmartChunked == ret.args.op = "smart_chunking"

\* the dispatch the claim describes, for the call that returned
DispatchAsClaimed ==
    IF \/ LowerStrip(ret.args.document_type) \in {"contract", "legal", "agreement"}
       \/ HasStructure(ret.args.text)
    THEN /\ ret.call.fn = "hierarchical_chunking"
         /\ ret.call.text = ret.args.text
    ELSE ret.call = [fn |-> "semantic_chunk_with_overlap", text |-> ret.args.text,
                     chunk_size |-> ret.args.chunk_size,
                     overlap_size |-> ret.args.overlap_size]

\* C27 as claimed: smart_chunking uses the hierarchical strategy exactly when the
\* hint, trimmed and lower-cased, is contract, legal or agreement, or the text holds a
\* structure marker, and the sliding-window strategy with the caller's chunk_size and
\* overlap_size in every other case.
C27_StrategyDispatch ==
    SmartChunked => DispatchAsClaimed

\* C27 as amended: for a text that is not empty or whitespace-only the dispatch is as
\* claimed; for an empty or whitespace-only text smart_chunking returns the empty
\* list and uses neither strategy.
C27_StrategyDispatchOnNonBlankText ==
    SmartChunked =>
        IF IsBlankText(ret.args.text)
        THEN ret.call = [fn |-> "none"] /\ ret.value = <<>>
        ELSE DispatchAsClaimed

\* a hint that needs trimming and lower-casing chose the hierarchical strategy for a
\* text without structure markers
C27_Witness ==
    /\ SmartChunked
    /\ ret.args.document_type = " Legal "
    /\ ~IsBlankText(ret.args.text)
    /\ ~HasStructure(ret.args.text)
    /\ ret.call.fn = "hierarchical_chunking"

\* the sentence positions a candidate chunk holds
Holds(c) == {c.idx[i] : i \in 1..Len(c.idx)}

\* C30: every input sentence is placed in at least one candidate chunk; each
\* candidate is the join of its sentences, taken in input order; later candidates
\* start and end later in the input; and a sentence is in no returned chunk only
\* when every candidate holding it was dropped.
C30_SentencesPlacedInOrder ==
    Chunked =>
        /\ \A k \in 1..Len(ret.sentences) :
               \E j \in 1..Len(ret.candidates) : k \in Holds(ret.candidates[j])
        /\ \A j \in 1..Len(ret.candidates) :
               LET c == ret.candidates[j]
               IN  /\ c.idx # <<>>
                   /\ \A i \in 1..(Len(c.idx) - 1) : c.idx[i] < c.idx[i + 1]
                   /\ c.text = Join(SentencesOf(c))
        /\ \A j \in 2..Len(ret.candidates) :
               LET a == ret.candidates[j - 1]
                   b == ret.candidates[j]
               IN  /\ a.idx[1] <= b.idx[1]
                   /\ a.idx[Len(a.idx)] < b.idx[Len(b.idx)]
        /\ \A k \in 1..Len(ret.sentences) :
               \/ \A j \in 1..Len(ret.candidates) :
                      k \in Holds(ret.candidates[j]) => ~ret.candidates[j].kept
               \/ \E j \in 1..Len(ret.candidates), i \in 1..Len(ret.value) :
                      /\ k \in Holds(ret.candidates[j])
                      /\ ret.value[i] = ret.candidates[j].text

\* three sentences, a candidate that starts with overlap from the chunk closed before
\* it, a chunk returned, and a sentence absent from the output because every
\* candidate holding it was dropped
C30_Witness ==
    /\ Chunked
    /\ Len(ret.sentences) = 3
    /\ ret.value # <<>>
    /\ \E j \in 1..Len(ret.candidates) : ret.candidates[j].seeded >= 1
    /\ \E k \in 1..Len(ret.sentences) :
           \A j \in 1..Len(ret.candidates) :
               k \in Holds(ret.candidates[j]) => ~ret.candidates[j].kept

\* a call of assess_overall_quality has returned
Assessed == ret.args.op = "assess_overall_quality"

\* the place of a band in the order poor < fair < good < excellent
BandRank(band) ==
    CASE band = "poor"      -> 0
      [] band = "fair"      -> 1
      [] band = "good"      -> 2
      [] band = "excellent" -> 3

\* C24: with the other inputs of the call fixed, a higher avg_score, is_generic false
\* in place of true, and confidence high in place of medium, each give a band that is
\* not lower than the band the call returned.
C24_QualityMonotonic ==
    Assessed =>
        LET rm == ret.args.retrieval_metrics
            am == ret.args.answer_metrics
            c == ret.args.confidence
        IN  /\ "avg_score" \in rm.keys =>
                   \A a \in AvgScores :
                       a >= rm.avg_score =>
                           BandRank(assess_overall_quality([rm EXCEPT !.avg_score = a],
                                                           am, c).value)
                               >= BandRank(ret.value)
            /\ ("is_generic" \in am.keys /\ am.is_generic) =>
                   BandRank(assess_overall_quality(rm, [am EXCEPT !.is_generic = FALSE],
                                                   c).value)
                       >= BandRank(ret.value)
            /\ c = "medium" =>
                   BandRank(assess_overall_quality(rm, am, "high").value)
                       >= BandRank(ret.value)

\* a call that returned fair, for inputs where each of the three changes alone gives
\* good
C24_Witness ==
    /\ Assessed
    /\ ret.value = "fair"
    /\ ret.args.confidence = "medium"
    /\ "is_generic" \in ret.args.answer_metrics.keys
    /\ ret.args.answer_metrics.is_generic
    /\ "avg_score" \in ret.args.retrieval_metrics.keys
    /\ ret.args.retrieval_metrics.avg_score = 80
    /\ assess_overall_quality([ret.args.retrieval_metrics EXCEPT !.avg_score = 81],
                              ret.args.answer_metrics, "medium").value = "good"
    /\ assess_overall_quality(ret.args.retrieval_metrics,
                              [ret.args.answer_metrics EXCEPT !.is_generic = FALSE],
                              "medium").value = "good"
    /\ assess_overall_quality(ret.args.retrieval_metrics, ret.args.answer_metrics,
                              "high").value = "good"

\* C25: assess_overall_quality returns one of excellent, good, fair and poor, chosen
\* as score >= 80, >= 60, >= 40 and otherwise poor; the retrieval part of the score is
\* at most 40, the answer part at most 40 and the confidence part at most 20, and the
\* score is within 0..100, for every input, missing metrics included.
C25_QualityBandsAndScore ==
    Assessed =>
        /\ ret.value \in {"excellent", "good", "fair", "poor"}
        /\ ret.value = "excellent" <=> ret.score >= 80
        /\ ret.value = "good" <=> (ret.score >= 60 /\ ret.score < 80)
        /\ ret.value = "fair" <=> (ret.score >= 40 /\ ret.score < 60)
        /\ ret.value = "poor" <=> ret.score < 40
        /\ ret.score = ret.retrieval + ret.answer + ret.label
        /\ ret.retrieval \in 0..40
        /\ ret.answer \in 0..40
        /\ ret.label \in 0..20
        /\ ret.score \in 0..100

\* a call without retrieval metrics whose answer and confidence parts are at their
\* maximum: the score is 60, the lowest score of the band good
C25_Witness ==
    /\ Assessed
    /\ ret.args.retrieval_metrics.keys = {}
    /\ ret.answer = 40
    /\ ret.label = 20
    /\ ret.score = 60
    /\ ret.value = "good"

\* the generation call of the answered question returned a text
GenerationSucceeded ==
    Answered /\ "generation" \in ret.effects /\ ret.generation.kind = "text"

\* the answer text, lower-cased, holds a phrase of the family
Matches(family) == \E phrase \in ret.generation.text : Lower(phrase) \in family

\* C26: on a successful generation the confidence of the answer is that of the first
\* phrase family matching the lower-cased answer text, in the order citation (high),
\* hedging or inference (medium), explicit uncertainty (low), and medium when no
\* family matches; it is always one of high, medium and low.
C26_ConfidenceByFirstFamily ==
    GenerationSucceeded =>
        /\ ret.value.confidence \in {"high", "medium", "low"}
        /\ ret.value.confidence =
               (IF Matches(HighPhrases) THEN "high"
                ELSE IF Matches(MediumPhrases) THEN "medium"
                ELSE IF Matches(LowPhrases) THEN "low"
                ELSE "medium")

\* an answer that cites with a capital letter and also holds a hedging and an
\* uncertainty phrase was graded high
C26_Witness ==
    /\ GenerationSucceeded
    /\ ret.generation.text = {"According to", "likely", "unclear"}
    /\ ret.value.confidence = "high"

\* the row of document id changes its status in this step
StatusChanges(id) ==
    /\ id \in DOMAIN documents
    /\ id \in DOMAIN documents'
    /\ documents'[id].status # documents[id].status

\* the row of document id changes its extracted text in this step
TextChanges(id) ==
    /\ id \in DOMAIN documents
    /\ id \in DOMAIN documents'
    /\ documents'[id].extracted_text # documents[id].extracted_text

\* upload_document, at the commit that follows the text extraction of document id
ExtractionCommits(id) ==
    /\ pending.op = "process_document"
    /\ pending.document.id = id
    /\ pending'.op = "rag"

\* C28: a document is created with status 'processing'; its status changes only at
\* the commit that follows the text extraction in upload_document, from 'processing'
\* to 'ready' or to 'error', hence at most once; no later step (the RAG step, ask,
\* stats) changes it; and 'ready' is set in the step that sets the extracted text,
\* which no other step changes.
C28_StatusChangesOnceAtExtraction ==
    [][\A id \in DOMAIN documents' :
          /\ id \notin DOMAIN documents =>
                 /\ documents'[id].status = "processing"
                 /\ documents'[id].extracted_text = ""
          /\ StatusChanges(id) =>
                 /\ ExtractionCommits(id)
                 /\ documents[id].status = "processing"
                 /\ documents'[id].status \in {"ready", "error"}
                 /\ documents'[id].status = "ready" =>
                        documents'[id].extracted_text = pending'.args.extraction.text
          /\ TextChanges(id) =>
                 /\ StatusChanges(id)
                 /\ documents'[id].status = "ready"]_vars

\* an upload whose text was extracted and whose RAG step failed has returned, and
\* its document is 'ready' with the extracted text
C28_Witness ==
    /\ ret.args.op = "upload_document"
    /\ ret.status = "ok"
    /\ ret.absorbed
    /\ ret.value.id \in DOMAIN documents
    /\ documents[ret.value.id].status = "ready"
    /\ documents[ret.value.id].extracted_text = ret.args.extraction.text
    /\ ret.args.extraction.text # ""

\* the table holds a document of that id that belongs to the user
Owns(user, document_id) ==
    /\ document_id \in DOMAIN documents
    /\ documents[document_id].user_id = user

\* ask_question has returned for a document id that does not exist or belongs to
\* another user
AskedForForeignDocument ==
    /\ ret.args.op = "ask_question"
    /\ ~Owns(ret.args.user, ret.args.document_id)

\* answer_query is waiting for the generation call: it has searched
AnswerQueryInvoked == pending.op = "generate_content"

\* the request named a top_k in 1..10 and one of the three detail levels
ValidOptions(args) ==
    /\ 1 <= args.top_k
    /\ args.top_k <= 10
    /\ args.detail_level \in {"brief", "detailed", "comprehensive"}

\* C29 as stated: ask_question never invokes answer_query for a document id that does
\* not exist or is not owned by the requesting user, and such a request ends with the
\* not-found error.
C29_ForeignDocumentIsNotFound ==
    /\ AnswerQueryInvoked => Owns(pending.args.user, pending.args.document_id)
    /\ AskedForForeignDocument =>
           /\ ret.status = "http_404"
           /\ ret.effects = {}

\* C29, amended: ask_question never invokes answer_query (no search, no generation)
\* for a document id that does not exist or is not owned by the requesting user; such
\* a request ends with an error before any pipeline work, the validation error when
\* top_k or detail_level is invalid and the not-found error otherwise.
C29_ForeignDocumentEndsWithError ==
    /\ AnswerQueryInvoked => Owns(pending.args.user, pending.args.document_id)
    /\ AskedForForeignDocument =>
           /\ ret.status = (IF ValidOptions(ret.args) THEN "http_404" ELSE "http_400")
           /\ ret.effects = {}
           /\ "generation" \notin DOMAIN ret

\* a valid question about a document that exists and belongs to another user was
\* refused as not found
C29_Witness ==
    /\ AskedForForeignDocument
    /\ ret.args.document_id \in DOMAIN documents
    /\ documents[ret.args.document_id].status = "ready"
    /\ ValidOptions(ret.args)
    /\ ret.status = "http_404"

====
